---- MODULE Spec2Model ----
(***************************************************************************)
(* The command grammar engine of Pumpkin: the registry of command trees    *)
(* (CommandDispatcher), the path enumerator (CommandTree::iter_paths), the *)
(* permission resolver (CommandTree::get_permission) and the dispatch of a *)
(* command text (handle_command / dispatch / try_is_fitting_path).         *)
(*                                                                         *)
(* A Rust String is a sequence of one-character strings, so that           *)
(* split_whitespace, to_lowercase, join and starts_with are computed.      *)
(* Node indices are 0-based as in the source: nodes is a function on       *)
(* 0..n-1, and a children list is a sequence of such indices.              *)
(***************************************************************************)
EXTENDS Integers, Sequences, FiniteSets, TLC

VARIABLES
    commands,            \* CommandDispatcher.commands: name -> Command
    permissions,         \* CommandDispatcher.permissions: name -> PermissionLvl
    plugin_names,        \* CommandDispatcher.plugin_names: name -> namespace
    PERMISSION_CHECKER,  \* plugin::api::permissions::PERMISSION_CHECKER (OnceLock)
    pc,                  \* position of the handle_command task
    src,                 \* the sender of the command being handled
    cmd,                 \* the command text being handled
    tree,                \* the tree resolved by get_tree
    plugin_name,         \* the namespace resolved for the key
    raw_args,            \* dispatch's reversed token stack
    todo,                \* TraverseAllPathsIter.todo
    iter_path,           \* TraverseAllPathsIter.path
    path,                \* the path handed to try_is_fitting_path
    ix,                  \* position of try_is_fitting_path's loop in path
    args,                \* try_is_fitting_path's raw_args (the clone)
    parsed_args,         \* try_is_fitting_path's parsed_args
    result,              \* what dispatch returned
    invoked,             \* history: executor calls of this dispatch
    attempts,            \* history: paths handed to try_is_fitting_path
    messages,            \* history: messages handle_command sent to the sender
    prev,                \* history: outcome of the preceding related dispatch
    suggestions,         \* find_suggestions' HashSet, in insertion order
    calls,               \* history: the registration calls made, in order; in
                         \* a suggestion pass, the suggest calls made
    first_run,           \* history: the paths of the first run of iter_paths
    TREE_PERMISSION_CHECKER, \* command::tree::PERMISSION_CHECKER (OnceLock)
    permission_checker,  \* Context.permission_checker (RwLock<Option>)
    registrations,       \* history: the checker registrations made, in order
    consulted,           \* history: the cell the last permission check read
    tasks,               \* the tasks that use server.command_dispatcher
    rw_readers,          \* the tasks holding the registry's lock for reading
    rw_writer,           \* the task holding the registry's lock for writing
    rw_queue             \* the tasks waiting for the registry's lock, in order

\* the checker cells beside PERMISSION_CHECKER, and the checks made
checker_state == <<TREE_PERMISSION_CHECKER, permission_checker, registrations, consulted>>

\* server.command_dispatcher's lock and the tasks using it
lock_state == <<tasks, rw_readers, rw_writer, rw_queue>>

\* the state beside the registry, the checker and the dispatch task
aux == <<suggestions, calls, first_run, checker_state, lock_state>>

vars == <<commands, permissions, plugin_names, PERMISSION_CHECKER, pc, src, cmd,
          tree, plugin_name, raw_args, todo, iter_path, path, ix, args,
          parsed_args, result, invoked, attempts, messages, prev, aux>>

\* Option<T>: None is the empty tuple, Some(v) the one-element tuple
None == <<>>
Some(v) == <<v>>
IsSome(o) == o # <<>>
Unwrap(o) == o[1]

(***************************************************************************)
(* Strings                                                                 *)
(***************************************************************************)
Upper == <<"A", "B", "C", "D", "E", "F", "G", "H", "I", "J", "K", "L", "M",
           "N", "O", "P", "Q", "R", "S", "T", "U", "V", "W", "X", "Y", "Z">>
Lower == <<"a", "b", "c", "d", "e", "f", "g", "h", "i", "j", "k", "l", "m",
           "n", "o", "p", "q", "r", "s", "t", "u", "v", "w", "x", "y", "z">>

\* char::to_lowercase on the characters the model uses
LowerChar(c) ==
    IF \E i \in 1..Len(Upper) : Upper[i] = c
    THEN Lower[CHOOSE i \in 1..Len(Upper) : Upper[i] = c]
    ELSE c

\* str::to_lowercase
to_lowercase(s) == [i \in 1..Len(s) |-> LowerChar(s[i])]

\* a split on the space character alone
IsSpace(c) == c = " "

\* char::is_whitespace on the characters the model uses (space and tab)
is_whitespace(c) == c \in {" ", "\t"}

\* str::split_whitespace, collected: the maximal runs of non-whitespace
RECURSIVE SplitFrom(_, _, _)
SplitFrom(s, i, cur) ==
    IF i > Len(s)
    THEN IF cur = <<>> THEN <<>> ELSE <<cur>>
    ELSE IF is_whitespace(s[i])
         THEN (IF cur = <<>> THEN <<>> ELSE <<cur>>) \o SplitFrom(s, i + 1, <<>>)
         ELSE SplitFrom(s, i + 1, Append(cur, s[i]))

split_whitespace(s) == SplitFrom(s, 1, <<>>)

\* Iterator::rev, collected
Rev(s) == [i \in 1..Len(s) |-> s[Len(s) + 1 - i]]

\* [String]::join(sep)
RECURSIVE join(_, _)
join(parts, sep) ==
    IF parts = <<>> THEN <<>>
    ELSE IF Len(parts) = 1 THEN parts[1]
    ELSE parts[1] \o sep \o join(Tail(parts), sep)

\* str::starts_with
starts_with(s, p) == Len(s) >= Len(p) /\ SubSeq(s, 1, Len(p)) = p

\* str::strip_prefix, for a string that starts with p
strip_prefix(s, p) == SubSeq(s, Len(p) + 1, Len(s))

\* Vec::pop: the popped element (None on an empty vector) and the rest
PopValue(v) == IF v = <<>> THEN None ELSE Some(v[Len(v)])
PopRest(v) == IF v = <<>> THEN v ELSE SubSeq(v, 1, Len(v) - 1)

(***************************************************************************)
(* Words of the model                                                      *)
(***************************************************************************)
w_a == <<"a">>
w_b == <<"b">>
w_c == <<"c">>
w_x == <<"x">>
w_y == <<"y">>
w_hi == <<"h", "i">>
w_cmd == <<"c", "m", "d">>
w_perm == <<"p", "e", "r", "m">>
w_Foo == <<"F", "o", "o">>
w_Bar == <<"B", "a", "r">>
w_msg == <<"m", "s", "g">>
w_tell == <<"t", "e", "l", "l">>
w_w == <<"w">>
w_kill == <<"k", "i", "l", "l">>
w_nope == <<"n", "o", "p", "e">>
w_message == <<"m", "e", "s", "s", "a", "g", "e">>
w_player == <<"p", "l", "a", "y", "e", "r">>
w_target == <<"t", "a", "r", "g", "e", "t">>
w_player1 == <<"p", "l", "a", "y", "e", "r", "1">>
w_player2 == <<"p", "l", "a", "y", "e", "r", "2">>
w_pumpkin == <<"p", "u", "m", "p", "k", "i", "n">>
w_minecraft == <<"m", "i", "n", "e", "c", "r", "a", "f", "t">>
w_core == <<"c", "o", "r", "e">>
w_command == <<"c", "o", "m", "m", "a", "n", "d">>
w_dot == <<".">>
w_space == <<" ">>
w_pl == <<"p", "l">>
w_sug == <<"s", "u", "g">>
w_entity == <<"e", "n", "t", "i", "t", "y">>

(***************************************************************************)
(* Senders and the server                                                  *)
(***************************************************************************)
\* PermissionLvl: Zero..Four as 0..4
PermissionLvl == 0..4

\* CommandSender::Console, CommandSender::Rcon, CommandSender::Player
Console == [kind |-> "Console"]
Rcon == [kind |-> "Rcon"]
Player(name, lvl) == [kind |-> "Player", name |-> name, permission_lvl |-> lvl]

\* the players connected to the server (Server::get_player_by_name)
OnlinePlayers == {w_player1, w_player2}

is_player(s) == s.kind = "Player"

is_console(s) == s.kind = "Console"

\* CommandSender::as_player
as_player(s) == IF s.kind = "Player" THEN Some(s) ELSE None

\* CommandSender::permission_lvl
permission_lvl(s) == IF s.kind \in {"Console", "Rcon"} THEN 4 ELSE s.permission_lvl

\* CommandSender::has_permission_lvl
has_permission_lvl(s, lvl) ==
    IF s.kind \in {"Console", "Rcon"} THEN TRUE ELSE s.permission_lvl >= lvl

(***************************************************************************)
(* Nodes and trees                                                         *)
(***************************************************************************)
ExecuteLeaf(executor) == [tag |-> "ExecuteLeaf", executor |-> executor]
Literal(string) == [tag |-> "Literal", string |-> string]
Argument(name, consumer) == [tag |-> "Argument", name |-> name, consumer |-> consumer]
Require(predicate) == [tag |-> "Require", predicate |-> predicate]

Node(children, node_type, requires_permission) ==
    [children |-> children, node_type |-> node_type,
     requires_permission |-> requires_permission]

\* a Vec<Node> with the source's 0-based indices
NodeVec(s) == [i \in 0..(Len(s) - 1) |-> s[i + 1]]

CommandTree(nodes, children, names, description) ==
    [nodes |-> nodes, children |-> children, names |-> names,
     description |-> description]

\* Command::Tree and Command::Alias
CommandOfTree(t) == [tag |-> "Tree", tree |-> t]
CommandOfAlias(target) == [tag |-> "Alias", target |-> target]

\* Vec::contains
Contains(s, x) == \E i \in 1..Len(s) : s[i] = x

(***************************************************************************)
(* TraverseAllPathsIter                                                    *)
(***************************************************************************)
\* the root's children queued last to first
ReversedInitTodo(t) ==
    [k \in 1..Len(t.children) |-> <<0, t.children[Len(t.children) + 1 - k]>>]

\* iter_paths: the iterator's initial todo, (depth, i) for the root's children
IterInitTodo(t) == [k \in 1..Len(t.children) |-> <<0, t.children[k]>>]

\* a node's children left out of todo
DropChildren(t, td, depth, i) == td

\* the children of node i pushed to the back of todo
PushChildrenBack(t, td, depth, i) ==
    td \o [k \in 1..Len(t.nodes[i].children) |-> <<depth + 1, t.nodes[i].children[k]>>]

\* the children of node i pushed to the front of todo, in declaration order
PushChildrenFront(t, td, depth, i) ==
    [k \in 1..Len(t.nodes[i].children) |-> <<depth + 1, t.nodes[i].children[k]>>]
        \o td

\* i pushed on the path as it is
PushOnPath(p, depth, i) == Append(p, i)

\* path truncated to depth, then i pushed
UpdatePath(p, depth, i) ==
    Append(IF Len(p) > depth THEN SubSeq(p, 1, depth) ELSE p, i)

\* TraverseAllPathsIter::next: [item, todo, path]; item = None when exhausted
RECURSIVE IterNext(_, _, _)
IterNext(t, td, p) ==
    IF td = <<>>
    THEN [item |-> None, todo |-> td, path |-> p]
    ELSE LET depth == Head(td)[1]
             i == Head(td)[2]
             td2 == PushChildrenFront(t, Tail(td), depth, i)
             p2 == UpdatePath(p, depth, i)
         IN IF t.nodes[i].node_type.tag = "ExecuteLeaf"
            THEN [item |-> Some(p2), todo |-> td2, path |-> p2]
            ELSE IterNext(t, td2, p2)

\* iter_paths, collected
RECURSIVE IterCollect(_, _, _)
IterCollect(t, td, p) ==
    LET n == IterNext(t, td, p)
    IN IF n.item = None THEN <<>>
       ELSE <<Unwrap(n.item)>> \o IterCollect(t, n.todo, n.path)

iter_paths(t) == IterCollect(t, IterInitTodo(t), <<>>)

(***************************************************************************)
(* Permission resolver                                                     *)
(***************************************************************************)
\* CommandTree::get_node_permission_name
get_node_permission_name(t, node_index) ==
    LET nt == t.nodes[node_index].node_type
    IN CASE nt.tag = "Literal" -> Some(to_lowercase(nt.string))
         [] nt.tag = "Argument" -> Some(to_lowercase(nt.name))
         [] OTHER -> None

\* CommandTree::find_parent: the first node whose children contain node_index
find_parent(t, node_index) ==
    LET holders == {i \in DOMAIN t.nodes : Contains(t.nodes[i].children, node_index)}
    IN IF holders = {} THEN None
       ELSE Some(CHOOSE i \in holders : \A j \in holders : i <= j)

\* the while-let loop of get_permission: [returned, parts]; returned is TRUE
\* when the ? on find_parent left the function with None
RECURSIVE PermissionLoop(_, _, _)
PermissionLoop(t, current_index, permission_parts) ==
    IF current_index \notin DOMAIN t.nodes
    THEN [returned |-> FALSE, parts |-> permission_parts]
    ELSE LET perm == get_node_permission_name(t, current_index)
             parts2 == IF perm = None THEN permission_parts
                       ELSE Append(permission_parts, Unwrap(perm))
             parent == find_parent(t, current_index)
         IN IF parent = None
            THEN [returned |-> TRUE, parts |-> parts2]
            ELSE PermissionLoop(t, Unwrap(parent), parts2)

\* CommandTree::get_permission
get_permission(t, node_index, ns) ==
    LET l == PermissionLoop(t, node_index, <<ns>>)
        parts == <<l.parts[1]>> \o Rev(Tail(l.parts))
    IN IF l.returned THEN None
       ELSE IF Len(parts) <= 1 THEN None
       ELSE Some(join(parts, w_dot))

(***************************************************************************)
(* Permission checks of the sender                                         *)
(***************************************************************************)
\* PermissionChecker::check_permission of the checkers plugins supply
check_permission(checker, uuid, permission) ==
    CASE checker = "GrantPlayer1" -> uuid = w_player1
      [] checker = "DenyAll" -> FALSE
      [] OTHER -> FALSE

p_minecraft_command == w_minecraft \o w_dot \o w_command \o w_dot
w_op == <<"o", "p">>
w_stop == <<"s", "t", "o", "p">>
w_gamemode == <<"g", "a", "m", "e", "m", "o", "d", "e">>
w_tp == <<"t", "p">>
w_give == <<"g", "i", "v", "e">>
w_help == <<"h", "e", "l", "p">>
w_list == <<"l", "i", "s", "t">>

\* has_permission with the arm of Rcon left to the checker
has_permission_console_only(chk, s, permission) ==
    \/ s.kind = "Console"
    \/ /\ s.kind = "Player"
       /\ IsSome(chk)
       /\ check_permission(Unwrap(chk), s.name, permission)

\* CommandSender::has_permission, with the OnceLock's content as chk
has_permission_with(chk, s, permission) ==
    IF s.kind \in {"Console", "Rcon"} THEN TRUE
    ELSE IF starts_with(permission, p_minecraft_command)
         THEN LET has_node == IF IsSome(chk)
                              THEN check_permission(Unwrap(chk), s.name, permission)
                              ELSE FALSE
                  rest == strip_prefix(permission, p_minecraft_command)
                  has_level ==
                      CASE rest \in {w_op, w_stop} -> has_permission_lvl(s, 3)
                        [] rest \in {w_gamemode, w_tp, w_give} -> has_permission_lvl(s, 2)
                        [] rest \in {w_help, w_list, w_msg} -> has_permission_lvl(s, 0)
                        [] OTHER -> has_permission_lvl(s, 2)
              IN has_node /\ has_level
         ELSE IF IsSome(chk)
              THEN check_permission(Unwrap(chk), s.name, permission)
              ELSE FALSE

has_permission(s, permission) == has_permission_with(PERMISSION_CHECKER, s, permission)

\* CommandTree::get_required_permission: the permission string of a path whose
\* terminal node is permission-gated
get_required_permission(t, p, ns) ==
    IF t.nodes[p[Len(p)]].requires_permission
    THEN get_permission(t, p[Len(p)], ns)
    ELSE None

(***************************************************************************)
(* Argument consumers and executors                                        *)
(***************************************************************************)
\* Arg::Simple, Arg::Msg, Arg::Players, Arg::Entities
Arg(kind, value) == [kind |-> kind, value |-> value]

\* ArgumentConsumer::consume on a reversed token stack: [value, rest];
\* a declining consumer leaves the stack as it found it
consume(consumer, s, stack) ==
    CASE consumer = "SimpleArgConsumer" ->
           IF stack = <<>> THEN [value |-> None, rest |-> stack]
           ELSE [value |-> Some(Arg("Simple", <<stack[Len(stack)]>>)),
                 rest |-> PopRest(stack)]
      [] consumer = "MsgArgConsumer" ->
           IF stack = <<>> THEN [value |-> None, rest |-> stack]
           ELSE [value |-> Some(Arg("Msg", <<join(Rev(stack), w_space)>>)),
                 rest |-> <<>>]
      [] consumer = "PlayersArgumentConsumer" ->
           IF stack # <<>> /\ stack[Len(stack)] \in OnlinePlayers
           THEN [value |-> Some(Arg("Players", <<stack[Len(stack)]>>)),
                 rest |-> PopRest(stack)]
           ELSE [value |-> None, rest |-> stack]
      [] consumer = "EntitiesArgumentConsumer" ->
           IF stack # <<>> /\ stack[Len(stack)] \in OnlinePlayers
           THEN [value |-> Some(Arg("Entities", <<stack[Len(stack)]>>)),
                 rest |-> PopRest(stack)]
           ELSE [value |-> None, rest |-> stack]
      [] consumer = "FailSuggest" -> [value |-> None, rest |-> stack]

\* Result<(), CommandError>
Ok == [ok |-> TRUE, kind |-> "Ok", fmt |-> "", arg |-> <<>>]
Err(kind, fmt, arg) == [ok |-> FALSE, kind |-> kind, fmt |-> fmt, arg |-> arg]
InvalidConsumption(name) == Err("InvalidConsumption", "", name)
InvalidRequirement == Err("InvalidRequirement", "", <<>>)
PermissionDenied == Err("PermissionDenied", "", <<>>)
GeneralCommandIssue(fmt, arg) == Err("GeneralCommandIssue", fmt, arg)
OtherPumpkin(e) == Err("OtherPumpkin", e, <<>>)

\* HashMap::get on the arguments map
ArgOfKind(parsed, name, kind) ==
    name \in DOMAIN parsed /\ parsed[name].kind = kind

\* MsgExecutor::execute
MsgExecutor(s, parsed) ==
    IF ~ArgOfKind(parsed, w_message, "Msg") THEN InvalidConsumption(w_message)
    ELSE IF ~ArgOfKind(parsed, w_player, "Players") THEN InvalidConsumption(w_player)
    ELSE IF ~IsSome(as_player(s)) THEN InvalidRequirement
    ELSE Ok

\* KillExecutor::execute
KillExecutor(s, parsed) ==
    IF ~ArgOfKind(parsed, w_target, "Entities") THEN InvalidConsumption(w_target)
    ELSE Ok

\* KillSelfExecutor::execute
KillSelfExecutor(s, parsed) ==
    IF ~IsSome(as_player(s)) THEN InvalidRequirement ELSE Ok

\* a plugin's executor that answers some messages with an error of its own
ExY(s, parsed) ==
    IF ~ArgOfKind(parsed, w_y, "Msg") THEN InvalidConsumption(w_y)
    ELSE CASE parsed[w_y].value = <<w_c \o w_space \o w_b>> -> InvalidConsumption(w_y)
           [] parsed[w_y].value = <<w_c \o w_space \o w_c>> -> PermissionDenied
           [] parsed[w_y].value = <<w_b \o w_space \o w_b>> -> InvalidRequirement
           [] OTHER -> Ok

\* commands::banip: ARG_TARGET, ARG_REASON and NAMES
w_ip == <<"i", "p">>
w_reason == <<"r", "e", "a", "s", "o", "n">>
w_ban_ip == <<"b", "a", "n", "-", "i", "p">>

\* BanIpNoReasonExecutor::execute
BanIpNoReasonExecutor(s, parsed) ==
    IF ~ArgOfKind(parsed, w_ip, "Simple") THEN InvalidConsumption(w_ip)
    ELSE Ok

\* BanIpReasonExecutor::execute
BanIpReasonExecutor(s, parsed) ==
    IF ~ArgOfKind(parsed, w_ip, "Simple") THEN InvalidConsumption(w_ip)
    ELSE IF ~ArgOfKind(parsed, w_reason, "Msg") THEN InvalidConsumption(w_reason)
    ELSE Ok

\* CommandExecutor::execute
execute(executor, s, parsed) ==
    CASE executor = "MsgExecutor" -> MsgExecutor(s, parsed)
      [] executor = "BanIpNoReasonExecutor" -> BanIpNoReasonExecutor(s, parsed)
      [] executor = "BanIpReasonExecutor" -> BanIpReasonExecutor(s, parsed)
      [] executor = "ExY" -> ExY(s, parsed)
      [] executor = "KillExecutor" -> KillExecutor(s, parsed)
      [] executor = "KillSelfExecutor" -> KillSelfExecutor(s, parsed)
      [] executor = "FailIssue" -> GeneralCommandIssue("failed", <<>>)
      [] executor = "FailOther" -> OtherPumpkin("plugin error")
      [] OTHER -> Ok

\* a guard every sender meets
EverySenderMeets(p, s) == TRUE

\* the predicate of a Require node
predicate(p, s) ==
    CASE p = "is_player" -> is_player(s)
      [] OTHER -> TRUE

(***************************************************************************)
(* The trees                                                               *)
(***************************************************************************)
\* commands::msg::init_command_tree
MsgTree ==
    CommandTree(
        NodeVec(<<Node(<<>>, ExecuteLeaf("MsgExecutor"), FALSE),
                  Node(<<0>>, Argument(w_message, "MsgArgConsumer"), FALSE),
                  Node(<<1>>, Argument(w_player, "PlayersArgumentConsumer"), FALSE)>>),
        <<2>>, <<w_msg, w_tell, w_w>>,
        "Sends a private message to one or more players.")

\* commands::kill::init_command_tree
KillTree ==
    CommandTree(
        NodeVec(<<Node(<<>>, ExecuteLeaf("KillExecutor"), FALSE),
                  Node(<<0>>, Argument(w_target, "EntitiesArgumentConsumer"), FALSE),
                  Node(<<>>, ExecuteLeaf("KillSelfExecutor"), FALSE),
                  Node(<<2>>, Require("is_player"), FALSE)>>),
        <<1, 3>>, <<w_kill>>, "Kills all target entities.")

\* a plugin's tree: the sibling literals "a" and "b", then <x> "a" with an
\* executor that fails, then <y> taking the whole rest
CmdTree ==
    CommandTree(
        NodeVec(<<Node(<<>>, ExecuteLeaf("ExA"), FALSE),
                  Node(<<0>>, Literal(w_a), FALSE),
                  Node(<<>>, ExecuteLeaf("ExB"), FALSE),
                  Node(<<2>>, Literal(w_b), FALSE),
                  Node(<<>>, ExecuteLeaf("FailIssue"), FALSE),
                  Node(<<4>>, Literal(w_a), FALSE),
                  Node(<<5>>, Argument(w_x, "SimpleArgConsumer"), FALSE),
                  Node(<<>>, ExecuteLeaf("ExY"), FALSE),
                  Node(<<7>>, Argument(w_y, "MsgArgConsumer"), FALSE)>>),
        <<1, 3, 6, 8>>, <<w_cmd>>, "cmd")

\* a plugin's tree: "Foo" <Bar> with a permission-gated terminal, and an
\* ungated syntax "x"
PermTree ==
    CommandTree(
        NodeVec(<<Node(<<>>, ExecuteLeaf("ExGated"), TRUE),
                  Node(<<0>>, Argument(w_Bar, "SimpleArgConsumer"), FALSE),
                  Node(<<1>>, Literal(w_Foo), FALSE),
                  Node(<<>>, ExecuteLeaf("ExOpen"), FALSE),
                  Node(<<3>>, Literal(w_x), FALSE)>>),
        <<2, 4>>, <<w_perm>>, "perm")

\* a plugin's tree that takes over the name "msg" alone
PluginMsgTree ==
    CommandTree(
        NodeVec(<<Node(<<>>, ExecuteLeaf("FailOther"), FALSE),
                  Node(<<0>>, Argument(w_message, "MsgArgConsumer"), FALSE)>>),
        <<1>>, <<w_msg>>, "msg of a plugin")

\* Display for CommandTree: the usage string
TreeDisplay(t) == <<"/">> \o t.names[1]

(***************************************************************************)
(* The registry                                                            *)
(***************************************************************************)
\* HashMap::new, HashMap::insert, HashMap::get
EmptyMap == <<>>
MapInsert(m, k, v) == [x \in (DOMAIN m) \cup {k} |-> IF x = k THEN v ELSE m[x]]
MapGet(m, k) == IF k \in DOMAIN m THEN Some(m[k]) ELSE None

\* CommandDispatcher::new
NewDispatcher ==
    [commands |-> EmptyMap, permissions |-> EmptyMap, plugin_names |-> EmptyMap]

\* an insertion that leaves the entries of a name that is already registered
InsertIfAbsent(d, name, t, permission, ns) ==
    IF name \in DOMAIN d.commands THEN d
    ELSE [commands |-> MapInsert(d.commands, name, CommandOfTree(t)),
          permissions |-> MapInsert(d.permissions, name, permission),
          plugin_names |-> MapInsert(d.plugin_names, name, ns)]

\* an insertion that records the namespace under the first name of the tree
\* alone
InsertPrimaryNamespace(d, name, t, permission, ns) ==
    [commands |-> MapInsert(d.commands, name, CommandOfTree(t)),
     permissions |-> MapInsert(d.permissions, name, permission),
     plugin_names |-> IF name = t.names[1] THEN MapInsert(d.plugin_names, name, ns)
                      ELSE d.plugin_names]

\* the loop body of register_with_plugin, for one name
InsertName(d, name, t, permission, ns) ==
    [commands |-> MapInsert(d.commands, name, CommandOfTree(t)),
     permissions |-> MapInsert(d.permissions, name, permission),
     plugin_names |-> MapInsert(d.plugin_names, name, ns)]

\* the names register_with_plugin's loop goes through
RegisteredNames(t) == t.names

\* CommandDispatcher::register_with_plugin
RECURSIVE InsertNames(_, _, _, _, _)
InsertNames(d, names, t, permission, ns) ==
    IF names = <<>> THEN d
    ELSE InsertNames(InsertName(d, Head(names), t, permission, ns),
                     Tail(names), t, permission, ns)

register_with_plugin(d, t, permission, ns) ==
    InsertNames(d, RegisteredNames(t), t, permission, ns)

\* CommandDispatcher::register
register(d, t, permission) == register_with_plugin(d, t, permission, w_pumpkin)

\* command::default_dispatcher, for the trees of the model
default_dispatcher ==
    register(register(NewDispatcher, KillTree, 2), MsgTree, 0)

\* HashMap::contains_key in dispatch
ContainsKey(cmds, key) == key \in DOMAIN cmds

\* a get_tree that follows an Alias whose target is an Alias one hop further
get_tree_two_hops(cmds, key) ==
    LET command == MapGet(cmds, key)
        first == IF IsSome(command) /\ Unwrap(command).tag = "Alias"
                 THEN MapGet(cmds, Unwrap(command).target) ELSE command
        second == IF IsSome(first) /\ Unwrap(first).tag = "Alias"
                  THEN MapGet(cmds, Unwrap(first).target) ELSE first
    IN IF IsSome(second) /\ Unwrap(second).tag = "Tree"
       THEN [ok |-> TRUE, tree |-> Some(Unwrap(second).tree), err |-> Ok]
       ELSE [ok |-> FALSE, tree |-> None,
             err |-> GeneralCommandIssue("Internal Error (See logs for details)", <<>>)]

\* CommandDispatcher::get_tree: [ok, tree, err]
get_tree(cmds, key) ==
    LET command == MapGet(cmds, key)
    IN IF ~IsSome(command)
       THEN [ok |-> FALSE, tree |-> None,
             err |-> GeneralCommandIssue("Command not found", <<>>)]
       ELSE IF Unwrap(command).tag = "Tree"
       THEN [ok |-> TRUE, tree |-> Some(Unwrap(command).tree), err |-> Ok]
       ELSE LET target == MapGet(cmds, Unwrap(command).target)
            IN IF IsSome(target) /\ Unwrap(target).tag = "Tree"
               THEN [ok |-> TRUE, tree |-> Some(Unwrap(target).tree), err |-> Ok]
               ELSE [ok |-> FALSE, tree |-> None,
                     err |-> GeneralCommandIssue(
                                 "Internal Error (See logs for details)", <<>>)]

\* CommandDispatcher::get_permission_lvl
get_permission_lvl(perms, key) == MapGet(perms, key)

\* dispatch's choice of the namespace of the key
NamespaceOf(names, key) ==
    IF IsSome(MapGet(names, key)) THEN Unwrap(MapGet(names, key)) ELSE w_minecraft

\* a translation that hides every error behind the internal error text
ReplyInternalError(e) == <<"Internal Error (See logs for details)", <<>>>>

\* CommandError::into_string_or_pumpkin_error, then handle_command's message
ReplyOf(e) ==
    CASE e.kind = "InvalidConsumption" -> <<"Internal Error (See logs for details)", <<>>>>
      [] e.kind = "InvalidRequirement" -> <<"Internal Error (See logs for details)", <<>>>>
      [] e.kind = "PermissionDenied" ->
           <<"I'm sorry, but you do not have permission to perform this command. Please contact the server administrator if you believe this is an error.", <<>>>>
      [] e.kind = "GeneralCommandIssue" -> <<e.fmt, e.arg>>
      [] e.kind = "OtherPumpkin" ->
           <<"Unknown internal error occurred while running command. Please see server log", <<>>>>

\* what handle_command hands to its caller after dispatch returned r: the
\* function has no return type, both arms of its match end in send_message
handle_command_returns(r) == "()"

\* an error dropped without a message to the sender
NoReply(e) == <<>>

\* the messages handle_command sends for Err(e)
ReplyMessages(e) == <<ReplyOf(e)>>

(***************************************************************************)
(* Inputs                                                                  *)
(***************************************************************************)
\* the most tokens a command text has after its key
MaxArgs == 2

Senders == {Console, Rcon, Player(w_player1, 0)}

Keys == {w_cmd, w_perm, w_msg, w_tell, w_kill, w_nope}

\* the words tried after each key
Vocab(key) ==
    CASE key = w_cmd -> {w_a, w_b, w_c}
      [] key = w_perm -> {w_Foo, w_x}
      [] key \in {w_msg, w_tell} -> {w_player1, w_hi}
      [] key = w_kill -> {w_player1}
      [] OTHER -> {}

SeqsUpTo(S, n) == UNION {[1..k -> S] : k \in 0..n}

Texts ==
    UNION {{join(<<key>> \o a, w_space) : a \in SeqsUpTo(Vocab(key), MaxArgs)} :
             key \in Keys}
        \cup {<<>>, <<" ", "\t", " ">>,
              <<" ">> \o w_cmd \o <<"\t", " ">> \o w_b \o <<" ">>}

\* the trees, levels and names plugins register with
PluginTrees == {CmdTree, PermTree, PluginMsgTree}
PluginLvls == {0}
Plugins == {w_core}
Checkers == {"GrantPlayer1", "DenyAll"}

(***************************************************************************)
(* History                                                                 *)
(***************************************************************************)
Pending == [ok |-> FALSE, kind |-> "Pending", fmt |-> "", arg |-> <<>>]

Outcome ==
    [cmd |-> cmd, plugin_name |-> plugin_name, result |-> result,
     invoked |-> invoked, messages |-> messages]

KeyOf(text) == IF split_whitespace(text) = <<>> THEN None
               ELSE Some(split_whitespace(text)[1])

\* two names under which the registry holds equal entries
SameEntry(k1, k2) ==
    k1 \in DOMAIN commands /\ k2 \in DOMAIN commands /\ commands[k1] = commands[k2]

\* two texts with the same tokens after keys that are the same or hold equal
\* entries
Related(c1, c2) ==
    /\ IsSome(KeyOf(c1)) /\ IsSome(KeyOf(c2))
    /\ Tail(split_whitespace(c1)) = Tail(split_whitespace(c2))
    /\ \/ KeyOf(c1) = KeyOf(c2)
       \/ SameEntry(Unwrap(KeyOf(c1)), Unwrap(KeyOf(c2)))

(***************************************************************************)
(* State machine                                                           *)
(***************************************************************************)
AuxInit ==
    /\ suggestions = <<>>
    /\ calls = <<>>
    /\ first_run = None
    /\ TREE_PERMISSION_CHECKER = None
    /\ permission_checker = None
    /\ registrations = <<>>
    /\ consulted = None
    /\ tasks = <<>>
    /\ rw_readers = {}
    /\ rw_writer = None
    /\ rw_queue = <<>>

TaskInit ==
    /\ pc = "idle"
    /\ src = Console
    /\ cmd = <<>>
    /\ tree = None
    /\ plugin_name = <<>>
    /\ raw_args = <<>>
    /\ todo = <<>>
    /\ iter_path = <<>>
    /\ path = <<>>
    /\ ix = 0
    /\ args = <<>>
    /\ parsed_args = EmptyMap
    /\ result = Pending
    /\ invoked = <<>>
    /\ attempts = <<>>
    /\ messages = <<>>
    /\ prev = None

\* Server construction: command_dispatcher = default_dispatcher()
Init ==
    /\ commands = default_dispatcher.commands
    /\ permissions = default_dispatcher.permissions
    /\ plugin_names = default_dispatcher.plugin_names
    /\ PERMISSION_CHECKER = None
    /\ TaskInit
    /\ AuxInit

registry == <<commands, permissions, plugin_names>>
locals == <<tree, plugin_name, raw_args, todo, iter_path, path, ix, args, parsed_args>>
history == <<invoked, attempts, messages, prev>>

\* Context::register_command, under the write lock of the dispatcher
RegisterCommand(t, permission, ns) ==
    /\ pc = "idle"
    /\ LET d == register_with_plugin(
                    [commands |-> commands, permissions |-> permissions,
                     plugin_names |-> plugin_names], t, permission, ns)
       IN /\ commands' = d.commands
          /\ permissions' = d.permissions
          /\ plugin_names' = d.plugin_names
    /\ UNCHANGED <<PERMISSION_CHECKER, pc, src, cmd, locals, result, history>>
    /\ UNCHANGED aux

\* OnceLock::set: the first value stays
OnceLockSet(cell, v) == IF IsSome(cell) THEN cell ELSE Some(v)

\* plugin::api::permissions::register_permission_checker
RegisterPermissionChecker(checker) ==
    /\ pc = "idle"
    /\ PERMISSION_CHECKER' = OnceLockSet(PERMISSION_CHECKER, checker)
    /\ UNCHANGED <<registry, pc, src, cmd, locals, result, history>>
    /\ UNCHANGED aux

\* a path attempt on the stack the attempt before it left
SharedArgs(original, current) == current

\* the stack a path attempt works on: raw_args.clone()
AttemptArgs(original, current) == original

\* a path attempt on the arguments map the attempt before it left
KeepParsedArgs(current) == current

\* the arguments map a path attempt starts with: HashMap::new()
NewParsedArgs(current) == EmptyMap

\* handle_command up to dispatch's loop: tokenize, look the key up, resolve
\* the namespace and the tree
HandleCommand(s, c) ==
    /\ \/ pc = "idle"
       \/ pc = "done" /\ s = src /\ Related(c, cmd)
    /\ src' = s
    /\ cmd' = c
    /\ prev' = IF pc = "done" THEN Some(Outcome) ELSE None
    /\ invoked' = <<>>
    /\ attempts' = <<>>
    /\ messages' = <<>>
    /\ LET parts == split_whitespace(c)
       IN IF parts = <<>>
          THEN /\ result' = GeneralCommandIssue("Empty Command", <<>>)
               /\ pc' = "error"
               /\ tree' = None
               /\ plugin_name' = <<>>
               /\ raw_args' = <<>>
               /\ args' = <<>>
               /\ todo' = <<>>
          ELSE LET key == parts[1]
                   stack == Rev(Tail(parts))
                   got == get_tree(commands, key)
               IN /\ raw_args' = stack
                  /\ args' = stack
                  /\ IF ~ContainsKey(commands, key)
                     THEN /\ result' = GeneralCommandIssue(
                                           "Command {key} does not exist", key)
                          /\ pc' = "error"
                          /\ tree' = None
                          /\ plugin_name' = <<>>
                          /\ todo' = <<>>
                     ELSE /\ plugin_name' = NamespaceOf(plugin_names, key)
                          /\ IF ~got.ok
                             THEN /\ result' = got.err
                                  /\ pc' = "error"
                                  /\ tree' = None
                                  /\ todo' = <<>>
                             ELSE /\ result' = Pending
                                  /\ pc' = "paths"
                                  /\ tree' = got.tree
                                  /\ todo' = IterInitTodo(Unwrap(got.tree))
    /\ iter_path' = <<>>
    /\ path' = <<>>
    /\ ix' = 0
    /\ UNCHANGED <<registry, PERMISSION_CHECKER, parsed_args>>
    /\ UNCHANGED aux

\* a check before the loop that asks for the namespace's permission whether
\* the terminal is gated or not
PermittedGatedOrNot(t, p, ns, s) == has_permission(s, ns)

\* whether try_is_fitting_path's check before the loop lets the path through
PathPermitted(t, p, ns, s) ==
    LET required_permission == get_required_permission(t, p, ns)
    IN IsSome(required_permission) => has_permission(s, Unwrap(required_permission))

\* dispatch's loop: the next path of iter_paths, or the syntax error; then
\* try_is_fitting_path up to its loop
NextPath ==
    /\ pc = "paths"
    /\ LET t == Unwrap(tree)
           n == IterNext(t, todo, iter_path)
       IN /\ todo' = n.todo
          /\ iter_path' = n.path
          /\ IF ~IsSome(n.item)
             THEN /\ result' = GeneralCommandIssue(
                                   "Invalid Syntax. Usage: {tree}", TreeDisplay(t))
                  /\ pc' = "error"
                  /\ UNCHANGED <<path, ix, args, parsed_args, attempts>>
             ELSE /\ path' = Unwrap(n.item)
                  /\ attempts' = Append(attempts, Unwrap(n.item))
                  /\ args' = AttemptArgs(raw_args, args)
                  /\ parsed_args' = NewParsedArgs(parsed_args)
                  /\ ix' = 1
                  /\ IF PathPermitted(t, Unwrap(n.item), plugin_name, src)
                     THEN /\ pc' = "walk"
                          /\ result' = result
                     ELSE /\ pc' = "error"
                          /\ result' = PermissionDenied
    /\ UNCHANGED <<registry, PERMISSION_CHECKER, src, cmd, tree, plugin_name,
                   raw_args, invoked, messages, prev>>
    /\ UNCHANGED aux

CurrentNode == Unwrap(tree).nodes[path[ix]]

Walking(tag) ==
    /\ pc = "walk"
    /\ ix <= Len(path)
    /\ CurrentNode.node_type.tag = tag

\* a Literal node that accepts its string in any case
LiteralMatchesIgnoringCase(popped, string) ==
    IsSome(popped) /\ to_lowercase(Unwrap(popped)) = to_lowercase(string)

\* a Literal node that accepts whatever is popped
AnyLiteral(popped, string) == TRUE

\* whether a Literal node accepts the popped token
LiteralMatches(popped, string) == popped = Some(string)

\* NodeType::Literal in try_is_fitting_path
StepLiteral ==
    /\ Walking("Literal")
    /\ args' = PopRest(args)
    /\ IF LiteralMatches(PopValue(args), CurrentNode.node_type.string)
       THEN /\ ix' = ix + 1
            /\ pc' = pc
       ELSE /\ pc' = "paths"
            /\ ix' = ix
    /\ UNCHANGED <<registry, PERMISSION_CHECKER, src, cmd, tree, plugin_name,
                   raw_args, todo, iter_path, path, parsed_args, result, history>>
    /\ UNCHANGED aux

\* NodeType::Argument in try_is_fitting_path
StepArgument ==
    /\ Walking("Argument")
    /\ LET c == consume(CurrentNode.node_type.consumer, src, args)
       IN /\ args' = c.rest
          /\ IF IsSome(c.value)
             THEN /\ parsed_args' = MapInsert(parsed_args, CurrentNode.node_type.name,
                                              Unwrap(c.value))
                  /\ ix' = ix + 1
                  /\ pc' = pc
             ELSE /\ pc' = "paths"
                  /\ UNCHANGED <<parsed_args, ix>>
    /\ UNCHANGED <<registry, PERMISSION_CHECKER, src, cmd, tree, plugin_name,
                   raw_args, todo, iter_path, path, result, history>>
    /\ UNCHANGED aux

\* NodeType::Require in try_is_fitting_path
StepRequire ==
    /\ Walking("Require")
    /\ IF predicate(CurrentNode.node_type.predicate, src)
       THEN /\ ix' = ix + 1
            /\ pc' = pc
       ELSE /\ pc' = "paths"
            /\ ix' = ix
    /\ UNCHANGED <<registry, PERMISSION_CHECKER, src, cmd, tree, plugin_name,
                   raw_args, todo, iter_path, path, args, parsed_args, result,
                   history>>
    /\ UNCHANGED aux

\* an ExecuteLeaf that runs its executor whatever is left on the stack
LeafRunsAnyway(stack) == TRUE

\* whether an ExecuteLeaf reached with this stack runs its executor
LeafRuns(stack) == stack = <<>>

\* a dispatch that goes on to the next path after an error
ContinueAfterError == "paths"

\* what dispatch does with a result of try_is_fitting_path that is an error:
\* the ? returns it
AfterError == "error"

\* NodeType::ExecuteLeaf in try_is_fitting_path
StepExecuteLeaf ==
    /\ Walking("ExecuteLeaf")
    /\ IF LeafRuns(args)
       THEN LET r == execute(CurrentNode.node_type.executor, src, parsed_args)
            IN /\ invoked' = Append(invoked,
                                    [executor |-> CurrentNode.node_type.executor,
                                     sender |-> src, args |-> parsed_args])
               /\ IF r.ok
                  THEN /\ result' = Ok
                       /\ pc' = "done"
                  ELSE /\ result' = IF AfterError = "error" THEN r ELSE result
                       /\ pc' = AfterError
       ELSE /\ pc' = "paths"
            /\ UNCHANGED <<invoked, result>>
    /\ UNCHANGED <<registry, PERMISSION_CHECKER, src, cmd, tree, plugin_name,
                   raw_args, todo, iter_path, path, ix, args, parsed_args,
                   attempts, messages, prev>>
    /\ UNCHANGED aux

\* handle_command on Err(e): one message to the sender
Reply ==
    /\ pc = "error"
    /\ messages' = messages \o ReplyMessages(result)
    /\ pc' = "done"
    /\ UNCHANGED <<registry, PERMISSION_CHECKER, src, cmd, locals, result,
                   invoked, attempts, prev>>
    /\ UNCHANGED aux

\* the task has ended and its outcome is no longer followed: the history
\* follows a dispatch only into a related one, by the same sender under the
\* same registry and checker
Return ==
    /\ pc = "done"
    /\ pc' = "idle"
    /\ src' = Console
    /\ cmd' = <<>>
    /\ tree' = None
    /\ plugin_name' = <<>>
    /\ raw_args' = <<>>
    /\ todo' = <<>>
    /\ iter_path' = <<>>
    /\ path' = <<>>
    /\ ix' = 0
    /\ args' = <<>>
    /\ parsed_args' = EmptyMap
    /\ result' = Pending
    /\ invoked' = <<>>
    /\ attempts' = <<>>
    /\ messages' = <<>>
    /\ prev' = None
    /\ UNCHANGED <<registry, PERMISSION_CHECKER>>
    /\ UNCHANGED aux

Next ==
    \/ \E t \in PluginTrees, l \in PluginLvls, ns \in Plugins : RegisterCommand(t, l, ns)
    \/ \E k \in Checkers : RegisterPermissionChecker(k)
    \/ \E s \in Senders, c \in Texts : HandleCommand(s, c)
    \/ NextPath
    \/ StepLiteral
    \/ StepArgument
    \/ StepRequire
    \/ StepExecuteLeaf
    \/ Reply
    \/ Return

Spec == Init /\ [][Next]_vars

(***************************************************************************)
(* Suggestions                                                             *)
(***************************************************************************)
\* the characters of the model in the order of their bytes
Alphabet ==
    <<"\t", " ", ".", "/", "0", "1", "2", "3", "4", "5", "6", "7", "8", "9">>
        \o Upper \o Lower

CharRank(c) == CHOOSE i \in 1..Len(Alphabet) : Alphabet[i] = c

\* String::cmp is Less
RECURSIVE StrLess(_, _)
StrLess(a, b) ==
    IF b = <<>> THEN FALSE
    ELSE IF a = <<>> THEN TRUE
    ELSE IF Head(a) = Head(b) THEN StrLess(Tail(a), Tail(b))
    ELSE CharRank(Head(a)) < CharRank(Head(b))

\* CommandSuggestion { suggestion, tooltip }
CommandSuggestion(suggestion, tooltip) ==
    [suggestion |-> suggestion, tooltip |-> tooltip]

\* Eq for CommandSuggestion: entries of the same text are one entry
SuggestionEq(a, b) == a.suggestion = b.suggestion

\* the word being typed: the text after the last whitespace
RECURSIVE TrailingWord(_)
TrailingWord(input) ==
    IF input = <<>> \/ is_whitespace(input[Len(input)]) THEN <<>>
    ELSE Append(TrailingWord(SubSeq(input, 1, Len(input) - 1)), input[Len(input)])

\* a set of strings as a sequence, smallest first
RECURSIVE Ascending(_)
Ascending(S) ==
    IF S = {} THEN <<>>
    ELSE LET m == CHOOSE x \in S : \A y \in S : y = x \/ StrLess(x, y)
         IN <<m>> \o Ascending(S \ {m})

\* the names of the online players that complete the word being typed
Completions(input) ==
    Ascending({n \in OnlinePlayers : starts_with(n, TrailingWord(input))})

\* ArgumentConsumer::suggest: [res, value], value an Option<Vec<CommandSuggestion>>
suggest(consumer, s, input) ==
    CASE consumer = "PlayersArgumentConsumer" ->
           [res |-> Ok,
            value |-> Some([k \in 1..Len(Completions(input)) |->
                              CommandSuggestion(Completions(input)[k], None)])]
      [] consumer = "EntitiesArgumentConsumer" ->
           [res |-> Ok,
            value |-> Some([k \in 1..Len(Completions(input)) |->
                              CommandSuggestion(Completions(input)[k], Some(w_entity))])]
      [] consumer = "FailSuggest" ->
           [res |-> GeneralCommandIssue("suggest failed", <<>>), value |-> None]
      [] OTHER -> [res |-> Ok, value |-> None]

\* HashSet::insert: an entry equal to one of the set is not inserted
SetInsert(set, e) ==
    IF \E k \in 1..Len(set) : SuggestionEq(set[k], e) THEN set ELSE Append(set, e)

\* HashSet::extend
RECURSIVE SetExtend(_, _)
SetExtend(set, new) ==
    IF new = <<>> THEN set
    ELSE SetExtend(SetInsert(set, Head(new)), Tail(new))

\* an entry inserted into a list sorted by suggestion text, after its equals
RECURSIVE SortedInsert(_, _)
SortedInsert(sorted, e) ==
    IF sorted = <<>> THEN <<e>>
    ELSE IF StrLess(e.suggestion, Head(sorted).suggestion)
         THEN <<e>> \o sorted
         ELSE <<Head(sorted)>> \o SortedInsert(Tail(sorted), e)

\* a list left in the order of the set
Unsorted(list) == list

\* suggestions.sort_by(|a, b| a.suggestion.cmp(&b.suggestion))
RECURSIVE SortSuggestions(_)
SortSuggestions(list) ==
    IF list = <<>> THEN <<>>
    ELSE SortedInsert(SortSuggestions(SubSeq(list, 1, Len(list) - 1)),
                      list[Len(list)])

\* a plugin's tree "tp": <targets> <destination> with a permission-gated
\* terminal, and <destination>; both syntaxes begin with an argument that
\* suggests player names
TpTree ==
    CommandTree(
        NodeVec(<<Node(<<>>, ExecuteLeaf("ExTp2"), TRUE),
                  Node(<<0>>, Argument(w_player, "PlayersArgumentConsumer"), FALSE),
                  Node(<<1>>, Argument(w_target, "PlayersArgumentConsumer"), FALSE),
                  Node(<<>>, ExecuteLeaf("ExTp1"), FALSE),
                  Node(<<3>>, Argument(w_player, "EntitiesArgumentConsumer"), FALSE)>>),
        <<2, 4>>, <<w_tp>>, "tp")

\* a plugin's tree "sug": <player>, then an argument whose consumer fails in
\* suggest, then <target>
SugTree ==
    CommandTree(
        NodeVec(<<Node(<<>>, ExecuteLeaf("ExS1"), FALSE),
                  Node(<<0>>, Argument(w_player, "PlayersArgumentConsumer"), FALSE),
                  Node(<<>>, ExecuteLeaf("ExS2"), FALSE),
                  Node(<<2>>, Argument(w_x, "FailSuggest"), FALSE),
                  Node(<<>>, ExecuteLeaf("ExS3"), FALSE),
                  Node(<<4>>, Argument(w_target, "EntitiesArgumentConsumer"), FALSE)>>),
        <<1, 3, 5>>, <<w_sug>>, "sug")

w_mix == <<"m", "i", "x">>

\* a plugin's tree "mix": the literal "a", and <player>
MixTree ==
    CommandTree(
        NodeVec(<<Node(<<>>, ExecuteLeaf("ExA"), FALSE),
                  Node(<<0>>, Literal(w_a), FALSE),
                  Node(<<>>, ExecuteLeaf("ExS1"), FALSE),
                  Node(<<2>>, Argument(w_player, "PlayersArgumentConsumer"), FALSE)>>),
        <<1, 3>>, <<w_mix>>, "mix")

\* the registry of the suggestion runs: the core trees and four plugin trees
SuggestDispatcher ==
    register_with_plugin(
        register_with_plugin(
            register_with_plugin(
                register_with_plugin(default_dispatcher, TpTree, 2, w_core),
                SugTree, 0, w_core),
            PermTree, 0, w_core),
        MixTree, 0, w_core)

SuggestKeys == {w_tp, w_sug, w_kill, w_msg, w_perm, w_mix, w_nope}

\* the words tried after each key of a suggestion request
SuggestVocab(key) ==
    CASE key = w_perm -> {w_Foo, w_pl}
      [] key = w_mix -> {w_a, w_pl}
      [] OTHER -> {w_player1, w_pl}

\* a key, its words, and the text ending in the last word or in a space
SuggestTexts ==
    UNION {{join(<<key>> \o a, w_space) \o t :
               a \in SeqsUpTo(SuggestVocab(key), MaxArgs), t \in {<<>>, w_space}} :
             key \in SuggestKeys}
        \cup {<<>>}

SuggestInit ==
    /\ commands = SuggestDispatcher.commands
    /\ permissions = SuggestDispatcher.permissions
    /\ plugin_names = SuggestDispatcher.plugin_names
    /\ PERMISSION_CHECKER = None
    /\ TaskInit
    /\ AuxInit

\* the stack a suggestion path attempt works on: &mut raw_args, the one stack
\* of the whole pass
SuggestArgs(original, current) == current

\* find_suggestions up to its loop
FindSuggestions(s, c) ==
    /\ pc = "idle"
    /\ src' = s
    /\ cmd' = c
    /\ suggestions' = <<>>
    /\ LET parts == split_whitespace(c)
       IN IF parts = <<>>
          THEN /\ pc' = "s_done"
               /\ UNCHANGED <<tree, raw_args, args, todo>>
          ELSE LET got == get_tree(commands, parts[1])
               IN /\ raw_args' = Rev(Tail(parts))
                  /\ args' = Rev(Tail(parts))
                  /\ IF ~got.ok
                     THEN /\ pc' = "s_done"
                          /\ UNCHANGED <<tree, todo>>
                     ELSE /\ pc' = "s_paths"
                          /\ tree' = got.tree
                          /\ todo' = IterInitTodo(Unwrap(got.tree))
    /\ UNCHANGED <<registry, PERMISSION_CHECKER, plugin_name, iter_path, path, ix,
                   parsed_args, result, invoked, attempts, messages, prev, calls, first_run, checker_state, lock_state>>

\* Vec::from_iter(HashSet): the entries of the set in one of its orders
IterationOrders(set) ==
    {[k \in 1..Len(set) |-> set[o[k]]] : o \in Permutations(1..Len(set))}

\* find_suggestions' loop: the next path, or the sorted list
SuggestNextPath ==
    /\ pc = "s_paths"
    /\ LET n == IterNext(Unwrap(tree), todo, iter_path)
       IN /\ todo' = n.todo
          /\ iter_path' = n.path
          /\ IF ~IsSome(n.item)
             THEN /\ \E list \in IterationOrders(suggestions) :
                        suggestions' = SortSuggestions(list)
                  /\ pc' = "s_done"
                  /\ UNCHANGED <<path, ix, args, parsed_args, attempts>>
             ELSE /\ path' = Unwrap(n.item)
                  /\ attempts' = Append(attempts, Unwrap(n.item))
                  /\ args' = SuggestArgs(raw_args, args)
                  /\ parsed_args' = NewParsedArgs(parsed_args)
                  /\ ix' = 1
                  /\ pc' = "s_walk"
                  /\ UNCHANGED suggestions
    /\ UNCHANGED <<registry, PERMISSION_CHECKER, src, cmd, tree, plugin_name,
                   raw_args, result, invoked, messages, prev, calls, first_run, checker_state, lock_state>>

SuggestWalking(tag) ==
    /\ pc = "s_walk"
    /\ ix <= Len(path)
    /\ CurrentNode.node_type.tag = tag

\* NodeType::ExecuteLeaf in try_find_suggestions_on_path
SuggestExecuteLeaf ==
    /\ SuggestWalking("ExecuteLeaf")
    /\ pc' = "s_paths"
    /\ UNCHANGED <<registry, PERMISSION_CHECKER, src, cmd, locals, result, history,
                   aux>>

\* NodeType::Literal in try_find_suggestions_on_path
SuggestLiteral ==
    /\ SuggestWalking("Literal")
    /\ args' = PopRest(args)
    /\ IF LiteralMatches(PopValue(args), CurrentNode.node_type.string)
       THEN /\ ix' = ix + 1
            /\ pc' = pc
       ELSE /\ pc' = "s_paths"
            /\ ix' = ix
    /\ UNCHANGED <<registry, PERMISSION_CHECKER, src, cmd, tree, plugin_name,
                   raw_args, todo, iter_path, path, parsed_args, result, history,
                   aux>>

\* a pass that goes on to the next path after an error
SuggestOnAfterError == "s_paths"

\* what find_suggestions does with an Err of a path: log it, return Vec::new()
SuggestAfterError == "s_done"

\* a suggest call as the history records it
SuggestCall(consumer, p, k, input) ==
    [consumer |-> consumer, path |-> p, node |-> p[k], input |-> input]

\* a declined consume that asks for suggestions whatever is left on the stack
AsksSuggestAlways(rest) == TRUE

\* after a declined consume: raw_args.is_empty()
AsksSuggest(rest) == rest = <<>>

\* NodeType::Argument in try_find_suggestions_on_path
SuggestArgument ==
    /\ SuggestWalking("Argument")
    /\ LET c == consume(CurrentNode.node_type.consumer, src, args)
           sg == suggest(CurrentNode.node_type.consumer, src, cmd)
       IN /\ args' = c.rest
          /\ IF IsSome(c.value)
             THEN /\ parsed_args' = MapInsert(parsed_args, CurrentNode.node_type.name,
                                              Unwrap(c.value))
                  /\ ix' = ix + 1
                  /\ pc' = pc
                  /\ UNCHANGED <<suggestions, result, calls>>
             ELSE /\ UNCHANGED <<parsed_args, ix>>
                  /\ calls' = IF AsksSuggest(c.rest)
                              THEN Append(calls, SuggestCall(CurrentNode.node_type.consumer,
                                                             path, ix, cmd))
                              ELSE calls
                  /\ IF ~AsksSuggest(c.rest)
                     THEN /\ pc' = "s_paths"
                          /\ UNCHANGED <<suggestions, result>>
                     ELSE IF ~sg.res.ok
                     THEN /\ pc' = SuggestAfterError
                          /\ result' = sg.res
                          /\ suggestions' = IF SuggestAfterError = "s_done"
                                            THEN <<>> ELSE suggestions
                     ELSE /\ pc' = "s_paths"
                          /\ result' = result
                          /\ suggestions' = IF IsSome(sg.value)
                                            THEN SetExtend(suggestions, Unwrap(sg.value))
                                            ELSE suggestions
    /\ UNCHANGED <<registry, PERMISSION_CHECKER, src, cmd, tree, plugin_name,
                   raw_args, todo, iter_path, path, history, first_run,
                   checker_state, lock_state>>

\* NodeType::Require in try_find_suggestions_on_path
SuggestRequire ==
    /\ SuggestWalking("Require")
    /\ IF predicate(CurrentNode.node_type.predicate, src)
       THEN /\ ix' = ix + 1
            /\ pc' = pc
       ELSE /\ pc' = "s_paths"
            /\ ix' = ix
    /\ UNCHANGED <<registry, PERMISSION_CHECKER, src, cmd, tree, plugin_name,
                   raw_args, todo, iter_path, path, args, parsed_args, result,
                   history, aux>>

\* the list has been returned to the caller and the pass is no longer followed
SuggestReturn ==
    /\ pc = "s_done"
    /\ pc' = "idle"
    /\ src' = Console
    /\ cmd' = <<>>
    /\ tree' = None
    /\ plugin_name' = <<>>
    /\ raw_args' = <<>>
    /\ todo' = <<>>
    /\ iter_path' = <<>>
    /\ path' = <<>>
    /\ ix' = 0
    /\ args' = <<>>
    /\ parsed_args' = EmptyMap
    /\ result' = Pending
    /\ invoked' = <<>>
    /\ attempts' = <<>>
    /\ messages' = <<>>
    /\ prev' = None
    /\ suggestions' = <<>>
    /\ calls' = <<>>
    /\ UNCHANGED <<registry, PERMISSION_CHECKER, first_run, checker_state, lock_state>>

SuggestNext ==
    \/ \E s \in Senders, c \in SuggestTexts : FindSuggestions(s, c)
    \/ SuggestNextPath
    \/ SuggestExecuteLeaf
    \/ SuggestLiteral
    \/ SuggestArgument
    \/ SuggestRequire
    \/ SuggestReturn

SpecSuggest == SuggestInit /\ [][SuggestNext]_vars

(***************************************************************************)
(* Registration calls                                                      *)
(***************************************************************************)
w_test == <<"t", "e", "s", "t">>

\* test_dynamic_command's tree: CommandTree::new(["test"], "test_desc")
TestTree == CommandTree(NodeVec(<<>>), <<>>, <<w_test>>, "test_desc")

\* a plugin's tree that lists "tell" before "msg"
TellTree ==
    CommandTree(
        NodeVec(<<Node(<<>>, ExecuteLeaf("ExTell"), FALSE),
                  Node(<<0>>, Argument(w_message, "MsgArgConsumer"), FALSE)>>),
        <<1>>, <<w_tell, w_msg>>, "tell of a plugin")

\* the most registration calls of a run
MaxCalls == 2

RegTrees == {MsgTree, KillTree, PluginMsgTree, TellTree, TestTree}
RegLvls == {0, 2}

\* the registry as one record
Registry ==
    [commands |-> commands, permissions |-> permissions, plugin_names |-> plugin_names]

RegCall(t, permission, ns) == [tree |-> t, permission |-> permission, ns |-> ns]

\* CommandDispatcher::new()
RegInit ==
    /\ commands = NewDispatcher.commands
    /\ permissions = NewDispatcher.permissions
    /\ plugin_names = NewDispatcher.plugin_names
    /\ PERMISSION_CHECKER = None
    /\ TaskInit
    /\ AuxInit

\* dispatcher.register(tree, permission)
RegisterCore(t, permission) ==
    /\ Len(calls) < MaxCalls
    /\ LET d == register(Registry, t, permission)
       IN /\ commands' = d.commands
          /\ permissions' = d.permissions
          /\ plugin_names' = d.plugin_names
    /\ calls' = Append(calls, RegCall(t, permission, w_pumpkin))
    /\ UNCHANGED <<PERMISSION_CHECKER, pc, src, cmd, locals, result, history,
                   suggestions, first_run, checker_state, lock_state>>

\* dispatcher.register_with_plugin(tree, permission, plugin_name)
RegisterPlugin(t, permission, ns) ==
    /\ Len(calls) < MaxCalls
    /\ LET d == register_with_plugin(Registry, t, permission, ns)
       IN /\ commands' = d.commands
          /\ permissions' = d.permissions
          /\ plugin_names' = d.plugin_names
    /\ calls' = Append(calls, RegCall(t, permission, ns))
    /\ UNCHANGED <<PERMISSION_CHECKER, pc, src, cmd, locals, result, history,
                   suggestions, first_run, checker_state, lock_state>>

RegNext ==
    \/ \E t \in RegTrees, l \in RegLvls : RegisterCore(t, l)
    \/ \E t \in RegTrees, l \in RegLvls, ns \in Plugins : RegisterPlugin(t, l, ns)

SpecReg == RegInit /\ [][RegNext]_vars

(***************************************************************************)
(* Runs of iter_paths                                                      *)
(***************************************************************************)
\* the most nodes of a generated tree
MaxNodes == 3

NodeIds(n) == 0..(n - 1)

\* a set of node indices as a sequence, smallest first
RECURSIVE AscendingInts(_)
AscendingInts(S) ==
    IF S = {} THEN <<>>
    ELSE LET m == CHOOSE x \in S : \A y \in S : x <= y
         IN <<m>> \o AscendingInts(S \ {m})

\* where each node hangs: under the root (-1), nowhere (-2), or under a node
\* built after it; a terminal has no children
Shapes(n) ==
    {sh \in [par : [NodeIds(n) -> -2..(n - 1)],
             tag : [NodeIds(n) -> {"ExecuteLeaf", "Literal"}]] :
        \A i \in NodeIds(n) :
            sh.par[i] >= 0 => (sh.par[i] > i /\ sh.tag[sh.par[i]] = "Literal")}

\* the children list of node k (of the root for k = -1), declared in
\* ascending or in descending order of index
ChildrenList(n, sh, k, order) ==
    IF order = "ascending"
    THEN AscendingInts({i \in NodeIds(n) : sh.par[i] = k})
    ELSE Rev(AscendingInts({i \in NodeIds(n) : sh.par[i] = k}))

GenTree(n, sh, order) ==
    CommandTree(
        [i \in NodeIds(n) |->
            Node(ChildrenList(n, sh, i, order),
                 IF sh.tag[i] = "ExecuteLeaf" THEN ExecuteLeaf("Ex") ELSE Literal(w_a),
                 FALSE)],
        ChildrenList(n, sh, -1, order), <<w_cmd>>, "generated")

GenTrees ==
    UNION {{GenTree(n, sh, order) : sh \in Shapes(n), order \in {"ascending", "descending"}} :
             n \in 1..MaxNodes}

\* tree.iter_paths() on a tree
IterInit ==
    /\ commands = NewDispatcher.commands
    /\ permissions = NewDispatcher.permissions
    /\ plugin_names = NewDispatcher.plugin_names
    /\ PERMISSION_CHECKER = None
    /\ pc = "iter"
    /\ src = Console
    /\ cmd = <<>>
    /\ \E t \in GenTrees : tree = Some(t) /\ todo = IterInitTodo(t)
    /\ plugin_name = <<>>
    /\ raw_args = <<>>
    /\ iter_path = <<>>
    /\ path = <<>>
    /\ ix = 0
    /\ args = <<>>
    /\ parsed_args = EmptyMap
    /\ result = Pending
    /\ invoked = <<>>
    /\ attempts = <<>>
    /\ messages = <<>>
    /\ prev = None
    /\ AuxInit

\* one call of next() by the for loop over iter_paths
IterStep ==
    /\ pc = "iter"
    /\ LET n == IterNext(Unwrap(tree), todo, iter_path)
       IN /\ todo' = n.todo
          /\ iter_path' = n.path
          /\ IF IsSome(n.item)
             THEN /\ attempts' = Append(attempts, Unwrap(n.item))
                  /\ pc' = pc
             ELSE /\ attempts' = attempts
                  /\ pc' = "iter_end"
    /\ UNCHANGED <<registry, PERMISSION_CHECKER, src, cmd, tree, plugin_name,
                   raw_args, path, ix, args, parsed_args, result, invoked, messages,
                   prev, aux>>

\* tree.iter_paths() once more on the same tree
IterAgain ==
    /\ pc = "iter_end"
    /\ first_run = None
    /\ first_run' = Some(attempts)
    /\ attempts' = <<>>
    /\ todo' = IterInitTodo(Unwrap(tree))
    /\ iter_path' = <<>>
    /\ pc' = "iter"
    /\ UNCHANGED <<registry, PERMISSION_CHECKER, src, cmd, tree, plugin_name,
                   raw_args, path, ix, args, parsed_args, result, invoked, messages,
                   prev, suggestions, calls, checker_state, lock_state>>

IterRuns ==
    \/ IterStep
    \/ IterAgain

\* the for loop calls next() until it returns None
SpecIter == IterInit /\ [][IterRuns]_vars /\ WF_vars(IterStep)

(***************************************************************************)
(* Checker registrations and the checks that read them                     *)
(***************************************************************************)
\* the most checker registrations of a run
MaxRegistrations == 3

\* CommandTree::check_permission, with the OnceLock of tree.rs as chk:
\* the answer, and whether the OnceLock was read
tree_check_permission(chk, t, p, s, ns) ==
    LET last == p[Len(p)]
    IN IF ~t.nodes[last].requires_permission
       THEN [answer |-> TRUE, reached |-> FALSE]
       ELSE LET permission == get_permission(t, last, ns)
            IN IF IsSome(permission)
               THEN CASE s.kind = "Player" ->
                           [answer |-> IF IsSome(chk)
                                       THEN check_permission(Unwrap(chk), s.name,
                                                             Unwrap(permission))
                                       ELSE TRUE,
                            reached |-> TRUE]
                      [] s.kind = "Console" -> [answer |-> TRUE, reached |-> FALSE]
                      [] OTHER -> [answer |-> FALSE, reached |-> FALSE]
               ELSE [answer |-> TRUE, reached |-> FALSE]

\* a registration made, and a check made
Registration(entry, checker) == [entry |-> entry, checker |-> checker]
\* (named: the check asks for a permission by name)
Consultation(by, sender, named, reached, cell, answer) ==
    [by |-> by, sender |-> sender, named |-> named, reached |-> reached,
     cell |-> cell, answer |-> answer, after |-> Len(registrations)]

CheckedPermissions == {p_minecraft_command \o w_kill, w_core \o w_dot \o w_kill}
CheckedSenders == {Console, Rcon, Player(w_player1, 0), Player(w_player2, 2)}
\* PermissionLvl::Zero to PermissionLvl::Four
PermissionLvls == 0..4
CheckedTrees == {TpTree, KillTree}

CheckerInit ==
    /\ commands = NewDispatcher.commands
    /\ permissions = NewDispatcher.permissions
    /\ plugin_names = NewDispatcher.plugin_names
    /\ PERMISSION_CHECKER = None
    /\ pc = "checker"
    /\ src = Console
    /\ cmd = <<>>
    /\ tree = None
    /\ plugin_name = <<>>
    /\ raw_args = <<>>
    /\ todo = <<>>
    /\ iter_path = <<>>
    /\ path = <<>>
    /\ ix = 0
    /\ args = <<>>
    /\ parsed_args = EmptyMap
    /\ result = Pending
    /\ invoked = <<>>
    /\ attempts = <<>>
    /\ messages = <<>>
    /\ prev = None
    /\ AuxInit

\* plugin::api::permissions::register_permission_checker
RegisterThroughPluginApi(checker) ==
    /\ pc = "checker"
    /\ Len(registrations) < MaxRegistrations
    /\ PERMISSION_CHECKER' = OnceLockSet(PERMISSION_CHECKER, checker)
    /\ registrations' = Append(registrations,
                               Registration("plugin::api::permissions", checker))
    /\ UNCHANGED <<registry, pc, src, cmd, locals, result, history, suggestions,
                   calls, first_run, TREE_PERMISSION_CHECKER, permission_checker,
                   consulted, lock_state>>

\* command::tree::register_permission_checker
RegisterThroughTree(checker) ==
    /\ pc = "checker"
    /\ Len(registrations) < MaxRegistrations
    /\ TREE_PERMISSION_CHECKER' = OnceLockSet(TREE_PERMISSION_CHECKER, checker)
    /\ registrations' = Append(registrations, Registration("command::tree", checker))
    /\ UNCHANGED <<registry, PERMISSION_CHECKER, pc, src, cmd, locals, result,
                   history, suggestions, calls, first_run, permission_checker,
                   consulted, lock_state>>

\* Context::register_permission_checker
RegisterThroughContext(checker) ==
    /\ pc = "checker"
    /\ Len(registrations) < MaxRegistrations
    /\ permission_checker' = Some(checker)
    /\ registrations' = Append(registrations, Registration("Context", checker))
    /\ UNCHANGED <<registry, PERMISSION_CHECKER, pc, src, cmd, locals, result,
                   history, suggestions, calls, first_run, TREE_PERMISSION_CHECKER,
                   consulted, lock_state>>

\* CommandSender::has_permission
CheckHasPermission(s, permission) ==
    /\ pc = "checker"
    /\ consulted' = Some(Consultation("CommandSender::has_permission", Some(s), TRUE,
                                      s.kind = "Player", PERMISSION_CHECKER,
                                      has_permission(s, permission)))
    /\ UNCHANGED <<registry, PERMISSION_CHECKER, pc, src, cmd, locals, result,
                   history, suggestions, calls, first_run, TREE_PERMISSION_CHECKER,
                   permission_checker, registrations, lock_state>>

\* CommandSender::has_permission_lvl
CheckHasPermissionLvl(s, lvl) ==
    /\ pc = "checker"
    /\ consulted' = Some(Consultation("CommandSender::has_permission_lvl", Some(s),
                                      FALSE, FALSE, None, has_permission_lvl(s, lvl)))
    /\ UNCHANGED <<registry, PERMISSION_CHECKER, pc, src, cmd, locals, result,
                   history, suggestions, calls, first_run, TREE_PERMISSION_CHECKER,
                   permission_checker, registrations, lock_state>>

\* CommandTree::check_permission
CheckTreePermission(s, t, p) ==
    /\ pc = "checker"
    /\ LET r == tree_check_permission(TREE_PERMISSION_CHECKER, t, p, s, w_core)
       IN consulted' = Some(Consultation("CommandTree::check_permission", Some(s),
                                         t.nodes[p[Len(p)]].requires_permission,
                                         r.reached, TREE_PERMISSION_CHECKER, r.answer))
    /\ UNCHANGED <<registry, PERMISSION_CHECKER, pc, src, cmd, locals, result,
                   history, suggestions, calls, first_run, TREE_PERMISSION_CHECKER,
                   permission_checker, registrations, lock_state>>

\* Context::get_permission_checker
GetContextChecker ==
    /\ pc = "checker"
    /\ consulted' = Some(Consultation("Context::get_permission_checker", None, FALSE,
                                      TRUE,
                                      permission_checker, TRUE))
    /\ UNCHANGED <<registry, PERMISSION_CHECKER, pc, src, cmd, locals, result,
                   history, suggestions, calls, first_run, TREE_PERMISSION_CHECKER,
                   permission_checker, registrations, lock_state>>

CheckerNext ==
    \/ \E k \in Checkers : RegisterThroughPluginApi(k)
    \/ \E k \in Checkers : RegisterThroughTree(k)
    \/ \E k \in Checkers : RegisterThroughContext(k)
    \/ \E s \in CheckedSenders : \E permission \in CheckedPermissions :
          CheckHasPermission(s, permission)
    \/ \E s \in CheckedSenders : \E lvl \in PermissionLvls : CheckHasPermissionLvl(s, lvl)
    \/ \E s \in CheckedSenders : \E t \in CheckedTrees :
          \E i \in 1..Len(iter_paths(t)) : CheckTreePermission(s, t, iter_paths(t)[i])
    \/ GetContextChecker

SpecChecker == CheckerInit /\ [][CheckerNext]_vars

(***************************************************************************)
(* The lock of server.command_dispatcher                                   *)
(***************************************************************************)
\* the tasks of a run
MaxTasks == 3

TaskIds == 1..MaxTasks

\* the steps of path search a task takes while it holds the lock
SearchSteps == 2

\* a task before it asks for the lock: a chat command, a suggestion request,
\* or a plugin's register_command with its tree; a chat command with a tree
\* is one whose action calls register_command with that tree
NewTask(kind, t) ==
    [kind |-> kind, stage |-> "start", tree |-> t,
     left |-> IF IsSome(t) THEN RegisteredNames(Unwrap(t)) ELSE <<>>,
     steps |-> 0, seen |-> None]

StartTasks ==
    {NewTask("chat_command", None), NewTask("suggestion", None),
     NewTask("register", Some(TellTree)), NewTask("register", Some(TestTree))}

IsReader(task) == task.kind \in {"chat_command", "suggestion"}

\* the registry as one value
CurrentRegistry ==
    [commands |-> commands, permissions |-> permissions, plugin_names |-> plugin_names]

\* RwLock: a read guard is granted while no write guard is out
CanRead(readers, writer) == writer = None

\* a write guard granted whatever read guards are out
CanWriteBesideReaders(readers, writer) == writer = None

\* RwLock: a write guard is granted while no guard is out
CanWrite(readers, writer) == writer = None /\ readers = {}

LockInit ==
    /\ commands = default_dispatcher.commands
    /\ permissions = default_dispatcher.permissions
    /\ plugin_names = default_dispatcher.plugin_names
    /\ PERMISSION_CHECKER = None
    /\ pc = "lock"
    /\ src = Console
    /\ cmd = <<>>
    /\ tree = None
    /\ plugin_name = <<>>
    /\ raw_args = <<>>
    /\ todo = <<>>
    /\ iter_path = <<>>
    /\ path = <<>>
    /\ ix = 0
    /\ args = <<>>
    /\ parsed_args = EmptyMap
    /\ result = Pending
    /\ invoked = <<>>
    /\ attempts = <<>>
    /\ messages = <<>>
    /\ prev = None
    /\ suggestions = <<>>
    /\ calls = <<>>
    /\ first_run = None
    /\ TREE_PERMISSION_CHECKER = None
    /\ permission_checker = None
    /\ registrations = <<>>
    /\ consulted = None
    /\ tasks \in [TaskIds -> StartTasks]
    /\ rw_readers = {}
    /\ rw_writer = None
    /\ rw_queue = <<>>

LockFrame ==
    UNCHANGED <<PERMISSION_CHECKER, pc, src, cmd, locals, result, history,
                suggestions, calls, first_run, checker_state>>

\* command_dispatcher.read().await or .write().await is called: the task
\* joins the lock's queue
AwaitLock(t) ==
    /\ pc = "lock"
    /\ tasks[t].stage = "start"
    /\ tasks' = [tasks EXCEPT ![t].stage = "waiting"]
    /\ rw_queue' = Append(rw_queue, t)
    /\ UNCHANGED <<registry, rw_readers, rw_writer>>
    /\ LockFrame

\* .read().await returns the guard to the first task of the queue
GrantRead(t) ==
    /\ pc = "lock"
    /\ rw_queue # <<>>
    /\ Head(rw_queue) = t
    /\ tasks[t].stage = "waiting"
    /\ IsReader(tasks[t])
    /\ CanRead(rw_readers, rw_writer)
    /\ rw_queue' = Tail(rw_queue)
    /\ rw_readers' = rw_readers \cup {t}
    /\ tasks' = [tasks EXCEPT ![t].stage = "search",
                              ![t].seen = Some(CurrentRegistry)]
    /\ UNCHANGED <<registry, rw_writer>>
    /\ LockFrame

\* .write().await returns the guard to the first task of the queue
GrantWrite(t) ==
    /\ pc = "lock"
    /\ rw_queue # <<>>
    /\ Head(rw_queue) = t
    /\ \/ tasks[t].stage = "waiting" /\ ~IsReader(tasks[t])
       \/ tasks[t].stage = "action_waiting"
    /\ CanWrite(rw_readers, rw_writer)
    /\ rw_queue' = Tail(rw_queue)
    /\ rw_writer' = Some(t)
    /\ tasks' = [tasks EXCEPT ![t].stage = "writing"]
    /\ UNCHANGED <<registry, rw_readers>>
    /\ LockFrame

\* a step of handle_command or find_suggestions under the read guard: the
\* first resolves the tree, the later ones are path attempts, which await
\* the consumers and the action
SearchStep(t) ==
    /\ pc = "lock"
    /\ tasks[t].stage = "search"
    /\ tasks[t].steps < SearchSteps
    /\ tasks' = [tasks EXCEPT ![t].steps = @ + 1]
    /\ UNCHANGED <<registry, rw_readers, rw_writer, rw_queue>>
    /\ LockFrame

\* the read guard is dropped when the task's block ends, after the action
\* has returned
ReleaseRead(t) ==
    /\ pc = "lock"
    /\ tasks[t].stage = "search"
    /\ tasks[t].steps = SearchSteps
    /\ tasks[t].left = <<>>
    /\ tasks' = [tasks EXCEPT ![t].stage = "finished"]
    /\ rw_readers' = rw_readers \ {t}
    /\ UNCHANGED <<registry, rw_writer, rw_queue>>
    /\ LockFrame

\* one round of register_with_plugin's loop under the write guard
InsertStep(t) ==
    /\ pc = "lock"
    /\ tasks[t].stage = "writing"
    /\ tasks[t].left # <<>>
    /\ LET d == InsertName(CurrentRegistry, Head(tasks[t].left),
                           Unwrap(tasks[t].tree), 0, w_core)
       IN /\ commands' = d.commands
          /\ permissions' = d.permissions
          /\ plugin_names' = d.plugin_names
    /\ tasks' = [tasks EXCEPT ![t].left = Tail(@)]
    /\ UNCHANGED <<rw_readers, rw_writer, rw_queue>>
    /\ LockFrame

\* the write guard is dropped when register_command returns
ReleaseWrite(t) ==
    /\ pc = "lock"
    /\ tasks[t].stage = "writing"
    /\ tasks[t].left = <<>>
    /\ tasks' = [tasks EXCEPT ![t].stage = IF IsReader(tasks[t]) THEN "search"
                                           ELSE "finished"]
    /\ rw_writer' = None
    /\ UNCHANGED <<registry, rw_readers, rw_queue>>
    /\ LockFrame

LockNext ==
    \E t \in TaskIds :
        \/ AwaitLock(t)
        \/ GrantRead(t)
        \/ GrantWrite(t)
        \/ SearchStep(t)
        \/ ReleaseRead(t)
        \/ InsertStep(t)
        \/ ReleaseWrite(t)

SpecLock == LockInit /\ [][LockNext]_vars

\* the tasks of the runs in which an action registers a command
LiveStartTasks ==
    {NewTask("chat_command", None), NewTask("register", Some(TestTree)),
     NewTask("chat_command", Some(TestTree))}

LiveInit ==
    /\ commands = default_dispatcher.commands
    /\ permissions = default_dispatcher.permissions
    /\ plugin_names = default_dispatcher.plugin_names
    /\ PERMISSION_CHECKER = None
    /\ pc = "lock"
    /\ src = Console
    /\ cmd = <<>>
    /\ tree = None
    /\ plugin_name = <<>>
    /\ raw_args = <<>>
    /\ todo = <<>>
    /\ iter_path = <<>>
    /\ path = <<>>
    /\ ix = 0
    /\ args = <<>>
    /\ parsed_args = EmptyMap
    /\ result = Pending
    /\ invoked = <<>>
    /\ attempts = <<>>
    /\ messages = <<>>
    /\ prev = None
    /\ suggestions = <<>>
    /\ calls = <<>>
    /\ first_run = None
    /\ TREE_PERMISSION_CHECKER = None
    /\ permission_checker = None
    /\ registrations = <<>>
    /\ consulted = None
    /\ tasks \in [TaskIds -> LiveStartTasks]
    /\ rw_readers = {}
    /\ rw_writer = None
    /\ rw_queue = <<>>

\* the action of a dispatch calls register_command: command_dispatcher
\* .write().await is called inside executor.execute(..).await, under the
\* read guard of the task
ActionAwaitsWrite(t) ==
    /\ pc = "lock"
    /\ tasks[t].stage = "search"
    /\ tasks[t].steps = SearchSteps
    /\ tasks[t].left # <<>>
    /\ tasks' = [tasks EXCEPT ![t].stage = "action_waiting"]
    /\ rw_queue' = Append(rw_queue, t)
    /\ UNCHANGED <<registry, rw_readers, rw_writer>>
    /\ LockFrame

\* the steps of one task
TaskStep(t) ==
    \/ AwaitLock(t)
    \/ GrantRead(t)
    \/ GrantWrite(t)
    \/ SearchStep(t)
    \/ ActionAwaitsWrite(t)
    \/ ReleaseRead(t)
    \/ InsertStep(t)
    \/ ReleaseWrite(t)

LiveNext == \E t \in TaskIds : TaskStep(t)

\* every task is scheduled again and again, and every consumer and action
\* goes on until it returns
SpecLive == LiveInit /\ [][LiveNext]_vars /\ \A t \in TaskIds : WF_vars(TaskStep(t))

(***************************************************************************)
(* has_permission on the commands of the registry                          *)
(***************************************************************************)
GateTrees == {TpTree, PermTree}
GateLvls == {0, 2}
GateSenders == {Player(w_player1, 0), Player(w_player1, 2), Player(w_player2, 4)}

\* the paths of a tree that end in a permission-gated terminal
GatedPaths(t) ==
    {iter_paths(t)[i] : i \in {j \in 1..Len(iter_paths(t)) :
        t.nodes[iter_paths(t)[j][Len(iter_paths(t)[j])]].requires_permission}}

\* the permission string of a path under a namespace: the namespace, then the
\* lowercased names of the path's literals and arguments, joined by dots
derive_permission(t, p, ns) ==
    LET RECURSIVE Segments(_)
        Segments(k) ==
            IF k > Len(p) THEN <<>>
            ELSE LET name == get_node_permission_name(t, p[k])
                 IN (IF IsSome(name) THEN <<Unwrap(name)>> ELSE <<>>) \o Segments(k + 1)
    IN join(<<ns>> \o Segments(1), w_dot)

GateKeys == UNION {{t.names[i] : i \in 1..Len(t.names)} : t \in GateTrees}
GatePaths == UNION {GatedPaths(t) : t \in GateTrees}

GateInit ==
    /\ commands = NewDispatcher.commands
    /\ permissions = NewDispatcher.permissions
    /\ plugin_names = NewDispatcher.plugin_names
    /\ PERMISSION_CHECKER = None
    /\ pc = "gate"
    /\ src = Console
    /\ cmd = <<>>
    /\ tree = None
    /\ plugin_name = <<>>
    /\ raw_args = <<>>
    /\ todo = <<>>
    /\ iter_path = <<>>
    /\ path = <<>>
    /\ ix = 0
    /\ args = <<>>
    /\ parsed_args = EmptyMap
    /\ result = Pending
    /\ invoked = <<>>
    /\ attempts = <<>>
    /\ messages = <<>>
    /\ prev = None
    /\ AuxInit

GateFrame ==
    UNCHANGED <<pc, src, cmd, locals, result, history, suggestions, first_run,
                TREE_PERMISSION_CHECKER, permission_checker, registrations, lock_state>>

\* CommandDispatcher::register of a core command
GateRegister(t, permission) ==
    /\ pc = "gate"
    /\ Len(calls) < MaxCalls
    /\ LET d == register(CurrentRegistry, t, permission)
       IN /\ commands' = d.commands
          /\ permissions' = d.permissions
          /\ plugin_names' = d.plugin_names
    /\ calls' = Append(calls, RegCall(t, permission, w_pumpkin))
    /\ UNCHANGED <<PERMISSION_CHECKER, consulted>>
    /\ GateFrame

\* CommandDispatcher::register_with_plugin of a plugin's command
GateRegisterWithPlugin(t, permission, ns) ==
    /\ pc = "gate"
    /\ Len(calls) < MaxCalls
    /\ LET d == register_with_plugin(CurrentRegistry, t, permission, ns)
       IN /\ commands' = d.commands
          /\ permissions' = d.permissions
          /\ plugin_names' = d.plugin_names
    /\ calls' = Append(calls, RegCall(t, permission, ns))
    /\ UNCHANGED <<PERMISSION_CHECKER, consulted>>
    /\ GateFrame

\* plugin::api::permissions::register_permission_checker
GateRegisterChecker(checker) ==
    /\ pc = "gate"
    /\ PERMISSION_CHECKER' = OnceLockSet(PERMISSION_CHECKER, checker)
    /\ UNCHANGED <<registry, calls, consulted>>
    /\ GateFrame

\* has_permission of a player on the permission string of a gated path of a
\* registered command
GateCheck(s, key, p) ==
    /\ pc = "gate"
    /\ key \in DOMAIN commands
    /\ p \in GatedPaths(commands[key].tree)
    /\ LET permission == derive_permission(commands[key].tree, p, plugin_names[key])
       IN consulted' = Some([sender |-> s, key |-> key, ns |-> plugin_names[key],
                             threshold |-> permissions[key],
                             permission |-> permission,
                             cell |-> PERMISSION_CHECKER,
                             granted |-> has_permission(s, permission)])
    /\ UNCHANGED <<registry, PERMISSION_CHECKER, calls>>
    /\ GateFrame

GateNext ==
    \/ \E t \in GateTrees : \E permission \in GateLvls : GateRegister(t, permission)
    \/ \E t \in GateTrees : \E permission \in GateLvls : \E ns \in Plugins :
          GateRegisterWithPlugin(t, permission, ns)
    \/ \E k \in Checkers : GateRegisterChecker(k)
    \/ \E s \in GateSenders : \E key \in GateKeys : \E p \in GatePaths :
          GateCheck(s, key, p)

SpecGate == GateInit /\ [][GateNext]_vars

(***************************************************************************)
(* Dispatch on trees with guards and with literals of mixed case           *)
(***************************************************************************)
w_guard == <<"g", "u", "a", "r", "d">>
w_case == <<"c", "a", "s", "e">>

\* a plugin's tree: a guarded syntax for players, then the literal "a", then
\* the bare command
GuardTree ==
    CommandTree(
        NodeVec(<<Node(<<>>, ExecuteLeaf("ExSelf"), FALSE),
                  Node(<<0>>, Require("is_player"), FALSE),
                  Node(<<>>, ExecuteLeaf("ExA"), FALSE),
                  Node(<<2>>, Literal(w_a), FALSE),
                  Node(<<>>, ExecuteLeaf("ExBare"), FALSE)>>),
        <<1, 3, 4>>, <<w_guard>>, "guard")

\* a plugin's tree: "Foo" "b", then "b" "Foo", then <x> <y>
CaseTree ==
    CommandTree(
        NodeVec(<<Node(<<>>, ExecuteLeaf("ExFooB"), FALSE),
                  Node(<<0>>, Literal(w_b), FALSE),
                  Node(<<1>>, Literal(w_Foo), FALSE),
                  Node(<<>>, ExecuteLeaf("ExBFoo"), FALSE),
                  Node(<<3>>, Literal(w_Foo), FALSE),
                  Node(<<4>>, Literal(w_b), FALSE),
                  Node(<<>>, ExecuteLeaf("ExXY"), FALSE),
                  Node(<<6>>, Argument(w_y, "SimpleArgConsumer"), FALSE),
                  Node(<<7>>, Argument(w_x, "SimpleArgConsumer"), FALSE)>>),
        <<2, 5, 8>>, <<w_case>>, "case")

\* commands::banip::init_command_tree
BanIpTree ==
    CommandTree(
        NodeVec(<<Node(<<>>, ExecuteLeaf("BanIpNoReasonExecutor"), FALSE),
                  Node(<<>>, ExecuteLeaf("BanIpReasonExecutor"), FALSE),
                  Node(<<1>>, Argument(w_reason, "MsgArgConsumer"), FALSE),
                  Node(<<0, 2>>, Argument(w_ip, "SimpleArgConsumer"), FALSE)>>),
        <<3>>, <<w_ban_ip>>, "bans a player-ip")

WalkDispatcher ==
    register_with_plugin(
        register_with_plugin(
            register_with_plugin(
                register(register(NewDispatcher, KillTree, 2), BanIpTree, 3),
                GuardTree, 0, w_core),
            CaseTree, 0, w_core),
        CmdTree, 0, w_core)

WalkKeys == {w_kill, w_ban_ip, w_guard, w_case, w_cmd}

WalkVocab(key) ==
    CASE key = w_kill -> {w_player1}
      [] key = w_ban_ip -> {w_a, w_b}
      [] key = w_cmd -> {w_a, w_b, w_c}
      [] key = w_guard -> {w_a, w_b}
      [] key = w_case -> {w_Foo, to_lowercase(w_Foo), w_b}
      [] OTHER -> {}

WalkTexts ==
    UNION {{join(<<key>> \o a, w_space) : a \in SeqsUpTo(WalkVocab(key), MaxArgs)} :
             key \in WalkKeys}

WalkInit ==
    /\ commands = WalkDispatcher.commands
    /\ permissions = WalkDispatcher.permissions
    /\ plugin_names = WalkDispatcher.plugin_names
    /\ PERMISSION_CHECKER = None
    /\ TaskInit
    /\ AuxInit

WalkNext ==
    \/ \E s \in Senders, c \in WalkTexts : HandleCommand(s, c)
    \/ NextPath
    \/ StepLiteral
    \/ StepArgument
    \/ StepRequire
    \/ StepExecuteLeaf
    \/ Reply
    \/ Return

SpecWalk == WalkInit /\ [][WalkNext]_vars

(***************************************************************************)
(* Dispatch on registries that hold Command::Alias entries                 *)
(***************************************************************************)
\* the names stored as Alias and the names an Alias may point to
AliasNames == {w_tell, w_w}
AliasTargets == {w_kill, w_guard, w_tell, w_nope}

\* commands.insert(name, Command::Alias(target))
InsertAlias(cmds, name, target) == MapInsert(cmds, name, CommandOfAlias(target))

AliasDispatcher == register_with_plugin(register(NewDispatcher, KillTree, 2),
                                        GuardTree, 0, w_core)

AliasKeys == {w_kill, w_guard} \cup AliasNames

AliasTexts ==
    UNION {{join(<<key>> \o a, w_space) : a \in SeqsUpTo({w_player1, w_a}, MaxArgs)} :
             key \in AliasKeys}

\* a registry of two trees and two Alias entries
AliasInit ==
    /\ \E a \in AliasTargets, b \in AliasTargets :
          commands = InsertAlias(InsertAlias(AliasDispatcher.commands, w_tell, a), w_w, b)
    /\ permissions = AliasDispatcher.permissions
    /\ plugin_names = AliasDispatcher.plugin_names
    /\ PERMISSION_CHECKER = None
    /\ TaskInit
    /\ AuxInit

AliasNext ==
    \/ \E s \in Senders, c \in AliasTexts : HandleCommand(s, c)
    \/ NextPath
    \/ StepLiteral
    \/ StepArgument
    \/ StepRequire
    \/ StepExecuteLeaf
    \/ Reply
    \/ Return

SpecAlias == AliasInit /\ [][AliasNext]_vars

(***************************************************************************)
(* Dispatches and suggestion passes that may be dropped, among             *)
(* registrations                                                           *)
(***************************************************************************)
FrameTrees == {CmdTree, PluginMsgTree}
FrameKeys == {w_kill, w_cmd, w_msg}

FrameTexts ==
    UNION {{join(<<key>> \o a, w_space) : a \in SeqsUpTo(Vocab(key), MaxArgs)} :
             key \in FrameKeys}

\* the suggestion requests: a key, a word, and the text ending in the word or
\* in a space
FrameSuggestTexts ==
    UNION {{join(<<key>> \o a, w_space) \o t :
               a \in SeqsUpTo(Vocab(key), 1), t \in {<<>>, w_space}} :
             key \in FrameKeys}

\* the points where dispatch and find_suggestions are suspended: in
\* consumer.consume, in executor.execute, in consumer.suggest and in
\* send_message
Suspended ==
    \/ Walking("Argument")
    \/ Walking("ExecuteLeaf")
    \/ pc = "error"
    \/ SuggestWalking("Argument")

\* a dropped future that takes the registry with it
CancelClearingRegistry ==
    /\ Suspended
    /\ pc' = "cancelled"
    /\ commands' = NewDispatcher.commands
    /\ permissions' = NewDispatcher.permissions
    /\ plugin_names' = NewDispatcher.plugin_names
    /\ tree' = None
    /\ plugin_name' = <<>>
    /\ raw_args' = <<>>
    /\ todo' = <<>>
    /\ iter_path' = <<>>
    /\ path' = <<>>
    /\ ix' = 0
    /\ args' = <<>>
    /\ parsed_args' = EmptyMap
    /\ result' = Pending
    /\ UNCHANGED <<PERMISSION_CHECKER, src, cmd, history, aux>>

\* the future of handle_command or find_suggestions is dropped while it is
\* suspended: its locals go, `&self` is given back as it was
Cancel ==
    /\ Suspended
    /\ pc' = "cancelled"
    /\ tree' = None
    /\ plugin_name' = <<>>
    /\ raw_args' = <<>>
    /\ todo' = <<>>
    /\ iter_path' = <<>>
    /\ path' = <<>>
    /\ ix' = 0
    /\ args' = <<>>
    /\ parsed_args' = EmptyMap
    /\ result' = Pending
    /\ UNCHANGED <<registry, PERMISSION_CHECKER, src, cmd, history, aux>>

\* the dropped task is no longer followed
Dropped ==
    /\ pc = "cancelled"
    /\ pc' = "idle"
    /\ src' = Console
    /\ cmd' = <<>>
    /\ invoked' = <<>>
    /\ attempts' = <<>>
    /\ messages' = <<>>
    /\ prev' = None
    /\ suggestions' = <<>>
    /\ calls' = <<>>
    /\ UNCHANGED <<registry, PERMISSION_CHECKER, locals, result, first_run,
                   checker_state, lock_state>>

FrameNext ==
    \/ \E t \in FrameTrees, l \in PluginLvls, ns \in Plugins : RegisterCommand(t, l, ns)
    \/ \E s \in Senders, c \in FrameTexts : HandleCommand(s, c)
    \/ NextPath
    \/ StepLiteral
    \/ StepArgument
    \/ StepRequire
    \/ StepExecuteLeaf
    \/ Reply
    \/ Return
    \/ \E s \in Senders, c \in FrameSuggestTexts : FindSuggestions(s, c)
    \/ SuggestNextPath
    \/ SuggestExecuteLeaf
    \/ SuggestLiteral
    \/ SuggestArgument
    \/ SuggestRequire
    \/ SuggestReturn
    \/ Cancel
    \/ Dropped

SpecFrame == Init /\ [][FrameNext]_vars

(***************************************************************************)
(* Reference definitions the properties are stated with                    *)
(***************************************************************************)
\* the root-to-terminal chains of a tree in depth-first, left-to-right
\* pre-order
RECURSIVE PathsBelow(_, _, _)
PathsBelow(t, prefix, list) ==
    IF list = <<>> THEN <<>>
    ELSE LET p == Append(prefix, Head(list))
             n == t.nodes[Head(list)]
         IN (IF n.node_type.tag = "ExecuteLeaf" THEN <<p>> ELSE <<>>)
                \o PathsBelow(t, p, n.children)
                \o PathsBelow(t, prefix, Tail(list))

PreOrderPaths(t) == PathsBelow(t, <<>>, t.children)

\* a path followed node by node on a token stack, from its k-th node:
\* [fits, parsed], fits when the terminal is reached with no token left
RECURSIVE Follow(_, _, _, _, _, _)
Follow(t, p, k, stack, parsed, s) ==
    IF k > Len(p) THEN [fits |-> FALSE, parsed |-> parsed]
    ELSE LET nt == t.nodes[p[k]].node_type
         IN CASE nt.tag = "ExecuteLeaf" -> [fits |-> stack = <<>>, parsed |-> parsed]
              [] nt.tag = "Literal" ->
                   IF stack # <<>> /\ stack[Len(stack)] = nt.string
                   THEN Follow(t, p, k + 1, SubSeq(stack, 1, Len(stack) - 1), parsed, s)
                   ELSE [fits |-> FALSE, parsed |-> parsed]
              [] nt.tag = "Argument" ->
                   LET c == consume(nt.consumer, s, stack)
                   IN IF IsSome(c.value)
                      THEN Follow(t, p, k + 1, c.rest,
                                  [x \in (DOMAIN parsed) \cup {nt.name} |->
                                      IF x = nt.name THEN Unwrap(c.value) ELSE parsed[x]],
                                  s)
                      ELSE [fits |-> FALSE, parsed |-> parsed]
              [] nt.tag = "Require" ->
                   IF predicate(nt.predicate, s)
                   THEN Follow(t, p, k + 1, stack, parsed, s)
                   ELSE [fits |-> FALSE, parsed |-> parsed]

Fits(t, p, stack, s) == Follow(t, p, 1, stack, <<>>, s).fits

ParsedOn(t, p, stack, s) == Follow(t, p, 1, stack, <<>>, s).parsed

\* the executor of the terminal of a path
ExecutorOf(t, p) == t.nodes[p[Len(p)]].node_type.executor

\* the call of the terminal of path p by sender s with the arguments map m
Call(t, p, s, m) == [executor |-> ExecutorOf(t, p), sender |-> s, args |-> m]

\* the tokens of the text after the key, as typed
TypedArgs(text) == Tail(split_whitespace(text))

(***************************************************************************)
(* C1                                                                      *)
(***************************************************************************)
\* the first-level children k of t that are a Literal w with an ExecuteLeaf as
\* first child, all earlier first-level children being other Literals
LiteralBranches(t, w) ==
    {k \in 1..Len(t.children) :
        /\ t.nodes[t.children[k]].node_type = Literal(w)
        /\ t.nodes[t.children[k]].children # <<>>
        /\ t.nodes[t.nodes[t.children[k]].children[1]].node_type.tag = "ExecuteLeaf"
        /\ \A j \in 1..(k - 1) :
              /\ t.nodes[t.children[j]].node_type.tag = "Literal"
              /\ t.nodes[t.children[j]].node_type.string # w}

\* the executor of the terminal below the k-th first-level child
BranchExecutor(t, k) ==
    t.nodes[t.nodes[t.children[k]].children[1]].node_type.executor

\* C1: every path attempt starts from the full original token stack; with
\* sibling literals as first-level children, each leading to its own terminal,
\* a text with the one token w after the key invokes the action under the
\* literal w and no other, also when attempts on earlier siblings popped a
\* token first.
C1_Backtracking ==
    /\ (pc = "walk" /\ ix = 1) => args = raw_args
    /\ (pc = "done" /\ IsSome(tree) /\ Len(raw_args) = 1) =>
          \A k \in LiteralBranches(Unwrap(tree), raw_args[1]) :
              /\ Len(attempts) = k
              /\ invoked = <<[executor |-> BranchExecutor(Unwrap(tree), k),
                              sender |-> src, args |-> <<>>]>>
              /\ result = execute(BranchExecutor(Unwrap(tree), k), src, <<>>)

\* "cmd b" has invoked the action under "b" after the attempt on the "a" path
C1_Witness ==
    /\ pc = "done"
    /\ split_whitespace(cmd) = <<w_cmd, w_b>>
    /\ Len(attempts) = 2
    /\ invoked = <<[executor |-> "ExB", sender |-> src, args |-> <<>>]>>

(***************************************************************************)
(* C2                                                                      *)
(***************************************************************************)
\* the positions, in enumeration order, of the paths that fully match the
\* tokens of the dispatch and pass the permission check of their attempt
FittingPaths(t) ==
    {i \in 1..Len(PreOrderPaths(t)) :
        /\ Fits(t, PreOrderPaths(t)[i], raw_args, src)
        /\ PathPermitted(t, PreOrderPaths(t)[i], plugin_name, src)}

FirstOf(S) == CHOOSE i \in S : \A j \in S : i <= j

FirstFittingPath(t) == PreOrderPaths(t)[FirstOf(FittingPaths(t))]

\* the one call of the first fitting path
FirstFittingCall(t) ==
    Call(t, FirstFittingPath(t), src, ParsedOn(t, FirstFittingPath(t), raw_args, src))

RECURSIVE SegmentsFrom(_, _, _)
SegmentsFrom(t, p, k) ==
    IF k > Len(p) THEN <<>>
    ELSE LET nt == t.nodes[p[k]].node_type
         IN (CASE nt.tag = "Literal" -> <<to_lowercase(nt.string)>>
               [] nt.tag = "Argument" -> <<to_lowercase(nt.name)>>
               [] OTHER -> <<>>)
                \o SegmentsFrom(t, p, k + 1)

PathSegments(t, p) == SegmentsFrom(t, p, 1)

w_foo == <<"f", "o", "o">>
w_bar == <<"b", "a", "r">>
core_foo_bar == <<"c", "o", "r", "e", ".", "f", "o", "o", ".", "b", "a", "r">>

\* C3: for a terminal whose chain contributes the segments ["foo", "bar"],
\* get_permission with the namespace "core" returns "core.foo.bar".
C3_CoreFooBar ==
    (pc = "walk" /\ plugin_name = w_core
        /\ PathSegments(Unwrap(tree), path) = <<w_foo, w_bar>>) =>
        get_permission(Unwrap(tree), path[Len(path)], plugin_name) = Some(core_foo_bar)

(***************************************************************************)
(* C4                                                                      *)
(***************************************************************************)
\* the permission string of a path: the namespace, then its segments
ExpectedPermission(t, p, ns) == join(<<ns>> \o PathSegments(t, p), w_dot)

\* the positions of the paths that fully match the tokens of the dispatch
MatchingPaths(t) ==
    {i \in 1..Len(PreOrderPaths(t)) : Fits(t, PreOrderPaths(t)[i], raw_args, src)}

FirstMatchingPath(t) == PreOrderPaths(t)[FirstOf(MatchingPaths(t))]

\* the path that matches the input ends in a permission-gated terminal and
\* the sender lacks the permission string of the path
GatedAndLacking(t) ==
    /\ MatchingPaths(t) # {}
    /\ t.nodes[FirstMatchingPath(t)[Len(FirstMatchingPath(t))]].requires_permission
    /\ ~has_permission(src, ExpectedPermission(t, FirstMatchingPath(t), plugin_name))

\* C4: when the terminal of the matching path is permission-gated and the
\* sender lacks the derived permission string, dispatch returns
\* PermissionDenied and the action is never invoked.
C4_PermissionGating ==
    (pc = "done" /\ IsSome(tree) /\ GatedAndLacking(Unwrap(tree))) =>
        /\ result = PermissionDenied
        /\ invoked = <<>>

(***************************************************************************)
(* C5                                                                      *)
(***************************************************************************)
\* the first token of the text being handled is no registered name
UnregisteredKey ==
    /\ IsSome(KeyOf(cmd))
    /\ Unwrap(KeyOf(cmd)) \notin DOMAIN commands

\* C5: a text whose first token is not a registered name ends in
\* GeneralCommandIssue, invokes no action, and handle_command sends exactly
\* one message to the sender.
C5_UnknownCommand ==
    /\ (pc \in {"error", "done"} /\ UnregisteredKey) =>
          /\ result.kind = "GeneralCommandIssue"
          /\ invoked = <<>>
          /\ attempts = <<>>
    /\ (pc = "done" /\ UnregisteredKey) => Len(messages) = 1

\* "nope" was handled while unregistered
C5_Witness ==
    /\ pc = "done"
    /\ UnregisteredKey
    /\ Len(messages) = 1

(***************************************************************************)
(* C6                                                                      *)
(***************************************************************************)
\* the text holds nothing but whitespace
Blank(text) == \A i \in 1..Len(text) : text[i] \in {" ", "\t"}

\* C6: the empty text and a text of whitespace alone end in
\* GeneralCommandIssue ("Empty Command"), with no tree looked up and no
\* action invoked.
C6_EmptyInput ==
    (pc \in {"error", "done"} /\ Blank(cmd)) =>
        /\ result = GeneralCommandIssue("Empty Command", <<>>)
        /\ tree = None
        /\ attempts = <<>>
        /\ invoked = <<>>

\* a text of blanks and a tab was handled
C6_Witness ==
    /\ pc = "done"
    /\ Blank(cmd)
    /\ cmd # <<>>
    /\ \E i \in 1..Len(cmd) : cmd[i] = "\t"
    /\ result.kind = "GeneralCommandIssue"

(***************************************************************************)
(* C7                                                                      *)
(***************************************************************************)
\* every enumerated path reports "no match" for the dispatch: it passes its
\* permission check and does not fully match the tokens
AllNoMatch(t) ==
    \A i \in 1..Len(PreOrderPaths(t)) :
        /\ PathPermitted(t, PreOrderPaths(t)[i], plugin_name, src)
        /\ ~Fits(t, PreOrderPaths(t)[i], raw_args, src)

\* C7: when every enumerated path reports "no match", dispatch ends in
\* GeneralCommandIssue carrying the usage string of the tree, after trying
\* every path and invoking no action; a path that reports "no match" produces
\* no error and no message by itself.
C7_InvalidSyntax ==
    /\ (pc \in {"error", "done"} /\ IsSome(tree) /\ AllNoMatch(Unwrap(tree))) =>
          /\ result = GeneralCommandIssue("Invalid Syntax. Usage: {tree}",
                                          TreeDisplay(Unwrap(tree)))
          /\ invoked = <<>>
          /\ attempts = PreOrderPaths(Unwrap(tree))
    /\ (pc = "done" /\ IsSome(tree) /\ AllNoMatch(Unwrap(tree))) =>
          messages = <<<<"Invalid Syntax. Usage: {tree}", TreeDisplay(Unwrap(tree))>>>>
    /\ pc \in {"paths", "walk"} => (result = Pending /\ messages = <<>>)

\* "perm Foo" matched neither path of its tree and got the usage message
C7_Witness ==
    /\ pc = "done"
    /\ split_whitespace(cmd) = <<w_perm, w_Foo>>
    /\ IsSome(tree)
    /\ AllNoMatch(Unwrap(tree))
    /\ Len(attempts) = 2
    /\ Len(messages) = 1

(***************************************************************************)
(* C8                                                                      *)
(***************************************************************************)
\* the result of the i-th call of the dispatch
ResultOfCall(i) == execute(invoked[i].executor, invoked[i].sender, invoked[i].args)

\* C8: once a path raises a real error, dispatch returns that error at once:
\* the erroring call is the last one, the result is its error, and no path
\* after the erroring one is attempted.
C8_ErrorStopsDispatch ==
    \A i \in 1..Len(invoked) :
        ~ResultOfCall(i).ok =>
            /\ pc \in {"error", "done"}
            /\ result = ResultOfCall(i)
            /\ i = Len(invoked)
            /\ Len(attempts) = FirstOf(FittingPaths(Unwrap(tree)))
            /\ ExecutorOf(Unwrap(tree), attempts[Len(attempts)]) = invoked[i].executor

\* "cmd c a": the third path failed in its action, the fourth, which fits too,
\* was never attempted
C8_Witness ==
    /\ pc = "done"
    /\ split_whitespace(cmd) = <<w_cmd, w_c, w_a>>
    /\ result = GeneralCommandIssue("failed", <<>>)
    /\ Len(attempts) = 3
    /\ Len(PreOrderPaths(Unwrap(tree))) = 4
    /\ Fits(Unwrap(tree), PreOrderPaths(Unwrap(tree))[4], raw_args, src)
    /\ Len(invoked) = 1

(***************************************************************************)
(* C9                                                                      *)
(***************************************************************************)
\* the dispatch before this one was of the same text
SameTextAgain == IsSome(prev) /\ Unwrap(prev).cmd = cmd

\* C9: dispatching the same text twice against unchanged trees invokes the
\* action once per dispatch, each time with the same arguments map, and with
\* the same result and messages; the map of a call holds exactly what its own
\* path parsed, nothing of an earlier path or dispatch.
C9_Repeatable ==
    /\ (pc = "done" /\ SameTextAgain) =>
          /\ invoked = Unwrap(prev).invoked
          /\ result = Unwrap(prev).result
          /\ messages = Unwrap(prev).messages
    /\ \A i \in 1..Len(invoked) :
          invoked[i].args =
              ParsedOn(Unwrap(tree), attempts[Len(attempts)], raw_args, src)

\* "cmd c" twice: each dispatch called the action of the <y> path with y alone,
\* after the <x> path had parsed x and been abandoned
C9_Witness ==
    /\ pc = "done"
    /\ SameTextAgain
    /\ split_whitespace(cmd) = <<w_cmd, w_c>>
    /\ Len(invoked) = 1
    /\ Len(Unwrap(prev).invoked) = 1
    /\ invoked[1].executor = "ExY"
    /\ DOMAIN invoked[1].args = {w_y}
    /\ Len(attempts) = 4

(***************************************************************************)
(* C10                                                                     *)
(***************************************************************************)
\* the dispatch before this one was of the same tokens under another name of
\* the same tree
SameTreeOtherName ==
    /\ IsSome(prev)
    /\ KeyOf(Unwrap(prev).cmd) # KeyOf(cmd)
    /\ SameEntry(Unwrap(KeyOf(Unwrap(prev).cmd)), Unwrap(KeyOf(cmd)))

\* C10: a text dispatched under an alias behaves as under the primary name:
\* the same tree, the same namespace for the permission decision, the same
\* calls, result and messages.
C10_AliasEquivalence ==
    (pc = "done" /\ SameTreeOtherName) =>
        /\ tree = get_tree(commands, Unwrap(KeyOf(Unwrap(prev).cmd))).tree
        /\ plugin_name = Unwrap(prev).plugin_name
        /\ invoked = Unwrap(prev).invoked
        /\ result = Unwrap(prev).result
        /\ messages = Unwrap(prev).messages

\* "msg player1 hi" and then "tell player1 hi" both ran the msg action
C10_Witness ==
    /\ pc = "done"
    /\ SameTreeOtherName
    /\ split_whitespace(Unwrap(prev).cmd) = <<w_msg, w_player1, w_hi>>
    /\ split_whitespace(cmd) = <<w_tell, w_player1, w_hi>>
    /\ Len(invoked) = 1
    /\ invoked[1].executor = "MsgExecutor"

(***************************************************************************)
(* C11                                                                     *)
(***************************************************************************)
\* the texts of the list find_suggestions holds
SuggestionTexts == [k \in 1..Len(suggestions) |-> suggestions[k].suggestion]

\* C11: with consumers that decline without touching the token stack,
\* find_suggestions on "tp pl" with player1 and player2 online returns
\* exactly ["player1", "player2"], also when several paths of the tree begin
\* with a player-name argument.
C11_TpSuggestions ==
    (pc = "s_done" /\ split_whitespace(cmd) = <<w_tp, w_pl>>
        /\ TrailingWord(cmd) = w_pl) =>
        SuggestionTexts = <<w_player1, w_player2>>

UnmetGuardReached(t, p) ==
    \E k \in 1..Len(p) :
        /\ t.nodes[p[k]].node_type.tag = "Require"
        /\ ~predicate(t.nodes[p[k]].node_type.predicate, src)
        /\ \A j \in 1..(k - 1) :
              /\ t.nodes[p[j]].node_type.tag = "Require"
              /\ predicate(t.nodes[p[j]].node_type.predicate, src)

\* the terminal of the path is permission-gated and the sender lacks the
\* permission string of the path
LacksPermission(t, p) ==
    /\ t.nodes[p[Len(p)]].requires_permission
    /\ ~has_permission(src, ExpectedPermission(t, p, NamespaceOf(plugin_names, t.names[1])))

\* the positions in the enumeration of the paths that meet an error condition
\* other than a failing suggest
ErrorPaths(t) ==
    {i \in 1..Len(PreOrderPaths(t)) :
        \/ UnmetGuardReached(t, PreOrderPaths(t)[i])
        \/ LacksPermission(t, PreOrderPaths(t)[i])}

\* C13: when a path of a suggestion pass meets an error condition (suggest
\* returns an error, the sender lacks the path's permission, or a Require
\* guard of the path is unmet), find_suggestions returns the empty list and
\* tries no later path.
C13_ErrorAbortsPass ==
    /\ (pc = "s_done" /\ result # Pending) =>
          /\ suggestions = <<>>
          /\ Len(attempts) < Len(PreOrderPaths(Unwrap(tree)))
    /\ (pc = "s_done" /\ IsSome(tree) /\ result = Pending
            /\ ErrorPaths(Unwrap(tree)) # {}) =>
          /\ suggestions = <<>>
          /\ Len(attempts) = FirstOf(ErrorPaths(Unwrap(tree)))

(***************************************************************************)
(* C14                                                                     *)
(***************************************************************************)
\* the calls whose tree lists the name
CallsListing(name) ==
    {i \in 1..Len(calls) : \E k \in 1..Len(calls[i].tree.names) :
                              calls[i].tree.names[k] = name}

LastCallListing(name) ==
    calls[CHOOSE i \in CallsListing(name) : \A j \in CallsListing(name) : j <= i]

\* the names some call listed
NamesListed ==
    UNION {{calls[i].tree.names[k] : k \in 1..Len(calls[i].tree.names)} :
             i \in 1..Len(calls)}

\* C14: after any sequence of register / register_with_plugin calls the
\* registered names are the names some call listed (none is lost), each name
\* maps to the tree, level and namespace of the most recent call that listed
\* it (the entries of the other names are as they were), and making the last
\* call once more leaves the registry as it is.
C14_LastWriteWins ==
    /\ DOMAIN commands = NamesListed
    /\ DOMAIN permissions = NamesListed
    /\ DOMAIN plugin_names = NamesListed
    /\ \A name \in NamesListed :
          /\ commands[name] = CommandOfTree(LastCallListing(name).tree)
          /\ permissions[name] = LastCallListing(name).permission
          /\ plugin_names[name] = LastCallListing(name).ns
    /\ calls # <<>> =>
          register_with_plugin(Registry, calls[Len(calls)].tree,
                               calls[Len(calls)].permission,
                               calls[Len(calls)].ns) = Registry

\* the msg tree was registered by the core, then a plugin took "msg" alone:
\* "msg" is the plugin's, "tell" still the core's
C14_Witness ==
    /\ Len(calls) = 2
    /\ calls[1] = RegCall(MsgTree, 0, w_pumpkin)
    /\ calls[2] = RegCall(PluginMsgTree, 2, w_core)
    /\ commands[w_msg] = CommandOfTree(PluginMsgTree)
    /\ permissions[w_msg] = 2
    /\ plugin_names[w_msg] = w_core
    /\ commands[w_tell] = CommandOfTree(MsgTree)
    /\ plugin_names[w_tell] = w_pumpkin

(***************************************************************************)
(* C15                                                                     *)
(***************************************************************************)
\* the message of handle_command for the error kinds with a fixed text
FixedText(kind) ==
    CASE kind \in {"InvalidConsumption", "InvalidRequirement"} ->
           "Internal Error (See logs for details)"
      [] kind = "PermissionDenied" ->
           "I'm sorry, but you do not have permission to perform this command. Please contact the server administrator if you believe this is an error."
      [] kind = "OtherPumpkin" ->
           "Unknown internal error occurred while running command. Please see server log"

ErrorKinds ==
    {"InvalidConsumption", "InvalidRequirement", "PermissionDenied",
     "GeneralCommandIssue", "OtherPumpkin"}

\* C15: handle_command ends for every result of dispatch: after an error of
\* any kind it has sent exactly one message to the sender, the text of a
\* GeneralCommandIssue verbatim and the fixed text of the other kinds; after a
\* success it has sent none; and an error of dispatch always leads to the
\* message, never out of handle_command.
C15_ErrorsBecomeMessages ==
    /\ pc = "done" =>
          IF result.ok THEN messages = <<>>
          ELSE /\ result.kind \in ErrorKinds
               /\ Len(messages) = 1
               /\ IF result.kind = "GeneralCommandIssue"
                  THEN messages[1] = <<result.fmt, result.arg>>
                  ELSE messages[1] = <<FixedText(result.kind), <<>>>>
    /\ pc \in {"idle", "paths", "walk", "error"} => messages = <<>>
    /\ pc = "error" => (~result.ok /\ ENABLED Reply)

\* an action of a plugin returned PermissionDenied and the sender got the
\* denial text
C15_Witness ==
    /\ pc = "done"
    /\ result = PermissionDenied
    /\ Len(invoked) = 1
    /\ messages = <<<<FixedText("PermissionDenied"), <<>>>>>>

(***************************************************************************)
(* C16                                                                     *)
(***************************************************************************)
\* the nodes reachable from a list of nodes through children lists
RECURSIVE ReachableFrom(_, _, _)
ReachableFrom(t, frontier, seen) ==
    IF frontier \subseteq seen THEN seen
    ELSE ReachableFrom(
             t,
             UNION {{t.nodes[i].children[k] : k \in 1..Len(t.nodes[i].children)} :
                      i \in frontier \ seen},
             seen \cup frontier)

ReachableLeaves(t) ==
    {i \in ReachableFrom(t, {t.children[k] : k \in 1..Len(t.children)}, {}) :
        t.nodes[i].node_type.tag = "ExecuteLeaf"}

\* p is a chain from a first-level child down to its last node
IsChain(t, p) ==
    /\ p # <<>>
    /\ \E k \in 1..Len(t.children) : t.children[k] = p[1]
    /\ \A j \in 1..(Len(p) - 1) : Contains(t.nodes[p[j]].children, p[j + 1])

C16_EndOfRun ==
    pc = "iter_end" =>
        /\ Len(attempts) = Cardinality(ReachableLeaves(Unwrap(tree)))
        /\ {attempts[i][Len(attempts[i])] : i \in 1..Len(attempts)}
               = ReachableLeaves(Unwrap(tree))
        /\ \A i \in 1..Len(attempts) : IsChain(Unwrap(tree), attempts[i])
        /\ \A i \in 1..Len(attempts) : \A j \in 1..Len(attempts) :
              i # j => attempts[i] # attempts[j]
        /\ IsSome(first_run) => attempts = Unwrap(first_run)

\* C16: every run of iter_paths ends, having yielded exactly one path per
\* ExecuteLeaf reachable from the first-level children, each a chain down to
\* its terminal and no two equal; a second run on the same tree yields the
\* same sequence.
C16_OnePathPerTerminal ==
    /\ []C16_EndOfRun
    /\ (pc = "iter") ~> (pc = "iter_end")

\* a second run over a tree with two terminals or more, one of them out of
\* reach, has ended with the paths of the first
C16_Witness ==
    /\ pc = "iter_end"
    /\ IsSome(first_run)
    /\ Len(attempts) >= 2
    /\ attempts = Unwrap(first_run)
    /\ \E i \in DOMAIN Unwrap(tree).nodes :
          /\ Unwrap(tree).nodes[i].node_type.tag = "ExecuteLeaf"
          /\ i \notin ReachableLeaves(Unwrap(tree))

(***************************************************************************)
(* C17                                                                     *)
(***************************************************************************)
\* C17: iter_paths yields the paths in depth-first, left-to-right pre-order:
\* what a run has yielded so far is the beginning of the pre-order list of the
\* tree's paths, and a run that has ended has yielded all of it.
C17_PreOrder ==
    /\ pc \in {"iter", "iter_end"} =>
          /\ Len(attempts) <= Len(PreOrderPaths(Unwrap(tree)))
          /\ attempts = SubSeq(PreOrderPaths(Unwrap(tree)), 1, Len(attempts))
    /\ pc = "iter_end" => attempts = PreOrderPaths(Unwrap(tree))

\* a terminal two levels down was yielded before the terminal that is a later
\* first-level child
C17_Witness ==
    /\ pc = "iter_end"
    /\ \E i \in 1..Len(attempts) : \E j \in 1..Len(attempts) :
          /\ i < j
          /\ Len(attempts[i]) = 2
          /\ Len(attempts[j]) = 1

(***************************************************************************)
(* C18                                                                     *)
(***************************************************************************)
FirstChecker == registrations[1].checker

\* C18: the permission checker is set once: after the first registration of a
\* checker through any entry point, no cell holds a checker of a later
\* registration, and every permission check made afterwards that reads a
\* cell finds the first checker in it.
C18_SetOnce ==
    registrations # <<>> =>
        /\ \A cell \in {PERMISSION_CHECKER, TREE_PERMISSION_CHECKER, permission_checker} :
              cell \in {None, Some(FirstChecker)}
        /\ (/\ IsSome(consulted)
            /\ Unwrap(consulted).reached
            /\ Unwrap(consulted).after >= 1)
           => Unwrap(consulted).cell = Some(FirstChecker)

(***************************************************************************)
(* C19                                                                     *)
(***************************************************************************)
InSearch == {t \in TaskIds : tasks[t].stage = "search"}
Registering == {t \in TaskIds : tasks[t].stage = "writing"}

\* C19: a registration never overlaps with a path search: while a task
\* registers no task is in path search, a task in path search finds the
\* registry as it was when its search began, and a dispatch or suggestion at
\* the head of the queue is let in whenever no registration holds the lock,
\* however many tasks are in path search already.
C19_RegistryLocking ==
    pc = "lock" =>
        /\ Registering = {} \/ InSearch = {}
        /\ Cardinality(Registering) <= 1
        /\ InSearch = rw_readers
        /\ Registering = {t \in TaskIds : rw_writer = Some(t)}
        /\ \A t \in InSearch : tasks[t].seen = Some(CurrentRegistry)
        /\ \A t \in TaskIds :
              (/\ rw_queue # <<>>
               /\ Head(rw_queue) = t
               /\ IsReader(tasks[t])
               /\ Registering = {})
              => ENABLED GrantRead(t)

\* a chat command and a suggestion request are in path search together, after
\* a registration that changed the registry
C19_Witness ==
    /\ pc = "lock"
    /\ \E t \in InSearch : \E u \in InSearch :
          /\ tasks[t].kind = "chat_command"
          /\ tasks[u].kind = "suggestion"
    /\ \E t \in TaskIds : tasks[t].kind = "register" /\ tasks[t].stage = "finished"
    /\ CurrentRegistry # default_dispatcher

(***************************************************************************)
(* C20                                                                     *)
(***************************************************************************)
\* the checker that was registered at the time of the check grants the string
CheckerGrants(c) ==
    /\ IsSome(c.cell)
    /\ check_permission(Unwrap(c.cell), c.sender.name, c.permission)

\* C20: for a player and the permission string of a command registered
\* through register, has_permission is true only if the player's level is at
\* least the level the command was registered with and the registered checker
\* grants the string; for a command registered under a plugin's namespace
\* has_permission is the checker's answer.
C20_TwoGates ==
    (pc = "gate" /\ IsSome(consulted)) =>
        LET c == Unwrap(consulted)
        IN IF c.ns = w_pumpkin
           THEN c.granted => (permission_lvl(c.sender) >= c.threshold /\ CheckerGrants(c))
           ELSE c.granted = CheckerGrants(c)

(***************************************************************************)
(* C21                                                                     *)
(***************************************************************************)
\* C21: every path yielded by iter_paths is a chain from the root to a
\* terminal: it is non-empty, it starts at a first-level child, each further
\* index is a child of the node before it, every index is an index of the
\* node array, and its last node is an ExecuteLeaf.
C21_ValidChains ==
    pc \in {"iter", "iter_end"} =>
        \A k \in 1..Len(attempts) :
            LET p == attempts[k]
                t == Unwrap(tree)
            IN /\ Len(p) >= 1
               /\ Contains(t.children, p[1])
               /\ \A j \in 2..Len(p) : Contains(t.nodes[p[j - 1]].children, p[j])
               /\ \A j \in 1..Len(p) : p[j] \in DOMAIN t.nodes
               /\ t.nodes[p[Len(p)]].node_type.tag = "ExecuteLeaf"

\* a path of two nodes was yielded and the path yielded after it is no longer
C21_Witness ==
    /\ pc = "iter"
    /\ \E k \in 1..(Len(attempts) - 1) :
          /\ Len(attempts[k]) = 2
          /\ Len(attempts[k + 1]) <= 2

(***************************************************************************)
(* C22                                                                     *)
(***************************************************************************)
\* the tokens left when the nodes of a path before its terminal have taken
\* theirs, from the k-th node on; None when the terminal is not reached
RECURSIVE LeftAtTerminal(_, _, _, _, _)
LeftAtTerminal(t, p, k, stack, s) ==
    IF k > Len(p) THEN None
    ELSE LET nt == t.nodes[p[k]].node_type
         IN CASE nt.tag = "ExecuteLeaf" -> Some(stack)
              [] nt.tag = "Literal" ->
                   IF stack # <<>> /\ stack[Len(stack)] = nt.string
                   THEN LeftAtTerminal(t, p, k + 1, SubSeq(stack, 1, Len(stack) - 1), s)
                   ELSE None
              [] nt.tag = "Argument" ->
                   IF IsSome(consume(nt.consumer, s, stack).value)
                   THEN LeftAtTerminal(t, p, k + 1, consume(nt.consumer, s, stack).rest, s)
                   ELSE None
              [] nt.tag = "Require" ->
                   IF predicate(nt.predicate, s)
                   THEN LeftAtTerminal(t, p, k + 1, stack, s)
                   ELSE None

\* the attempt on the current path has reached its terminal
AtTerminal == pc = "walk" /\ ix <= Len(path) /\ CurrentNode.node_type.tag = "ExecuteLeaf"

\* the tokens of the input the nodes of the current path left over
TokensLeft == LeftAtTerminal(Unwrap(tree), path, 1, raw_args, src)

C22_Step ==
    /\ (AtTerminal /\ TokensLeft # Some(<<>>)) =>
          (pc' = "paths" /\ invoked' = invoked /\ result' = result)
    /\ Len(invoked') > Len(invoked) => (AtTerminal /\ TokensLeft = Some(<<>>))

\* C22: an action is invoked only at the ExecuteLeaf of a path whose nodes
\* consumed every token of the input; a terminal reached with tokens left is
\* "no match": no action is invoked, no error is returned and dispatch goes
\* on to the next path.
C22_EmptyStackAtLeaf == [][C22_Step]_vars

\* the terminal of a path was reached with a token left, the attempt was
\* given up and nothing has been invoked
C22_Witness ==
    /\ pc = "paths"
    /\ IsSome(tree)
    /\ path # <<>>
    /\ ix <= Len(path)
    /\ CurrentNode.node_type.tag = "ExecuteLeaf"
    /\ IsSome(TokensLeft)
    /\ TokensLeft # Some(<<>>)
    /\ invoked = <<>>

(***************************************************************************)
(* C23                                                                     *)
(***************************************************************************)
\* whether a sender meets the guard of a Require node
GuardMet(guard, s) == guard = "is_player" => s.kind = "Player"

\* the guards on a path
GuardsOn(t, p) ==
    {t.nodes[p[j]].node_type.predicate :
        j \in {i \in 1..Len(p) : t.nodes[p[i]].node_type.tag = "Require"}}

C23_Step ==
    (Walking("Require") /\ ~GuardMet(CurrentNode.node_type.predicate, src)) =>
        /\ pc' = "paths"
        /\ result' = result
        /\ invoked' = invoked
        /\ todo' = todo

\* C23: an action below a Require guard is never invoked for a sender that
\* does not meet the guard; an unmet guard ends the attempt on its path
\* without an error and without an invocation, and dispatch goes on with the
\* paths that are left.
C23_UnmetGuard ==
    /\ [](invoked # <<>> => \A g \in GuardsOn(Unwrap(tree), path) : GuardMet(g, src))
    /\ [][C23_Step]_vars

\* a sender that is no player got the bare command's action, after the
\* attempt on the guarded path that comes first
C23_Witness ==
    /\ pc = "done"
    /\ src.kind # "Player"
    /\ IsSome(tree)
    /\ Len(attempts) = 3
    /\ GuardsOn(Unwrap(tree), attempts[1]) = {"is_player"}
    /\ invoked = <<[executor |-> "ExBare", sender |-> src, args |-> <<>>]>>
    /\ result = Ok

(***************************************************************************)
(* C24                                                                     *)
(***************************************************************************)
\* how many of the first i - 1 nodes of a path take a token
TokenNodesBefore(t, p, i) ==
    Cardinality({j \in 1..(i - 1) : t.nodes[p[j]].node_type.tag \in {"Literal", "Argument"}})

\* the node at position j of the current path was matched against the token
\* typed at the position the node has among the token-taking nodes
MatchedInOrder(j) ==
    LET t == Unwrap(tree)
        nt == t.nodes[path[j]].node_type
        k == TokenNodesBefore(t, path, j) + 1
    IN /\ nt.tag = "Literal" => (k <= Len(TypedArgs(cmd)) /\ TypedArgs(cmd)[k] = nt.string)
       /\ nt.tag = "Argument" =>
             /\ k <= Len(TypedArgs(cmd))
             /\ nt.name \in DOMAIN parsed_args
             /\ parsed_args[nt.name].value =
                   IF parsed_args[nt.name].kind = "Msg"
                   THEN <<join(SubSeq(TypedArgs(cmd), k, Len(TypedArgs(cmd))), w_space)>>
                   ELSE <<TypedArgs(cmd)[k]>>

C24_Step ==
    (/\ Walking("Literal")
     /\ LET k == TokenNodesBefore(Unwrap(tree), path, ix) + 1
        IN k > Len(TypedArgs(cmd)) \/ TypedArgs(cmd)[k] # CurrentNode.node_type.string)
    => (pc' = "paths" /\ invoked' = invoked /\ result' = result)

\* C24: tokens are consumed in the order they were typed: every node the
\* attempt has passed was matched against the token at its own position among
\* the token-taking nodes (a message argument against that token and all
\* after it, in the order typed), a Literal only by a token equal to its
\* string letter for letter; a Literal that meets no token or another token
\* ends the attempt as "no match".
C24_TypedOrder ==
    /\ [](pc = "walk" => \A j \in 1..(ix - 1) : MatchedInOrder(j))
    /\ [][C24_Step]_vars

\* "case foo b": the literal "Foo" did not take "foo", and the third syntax
\* got x = "foo" and y = "b"
C24_Witness ==
    /\ pc = "done"
    /\ TypedArgs(cmd) = <<to_lowercase(w_Foo), w_b>>
    /\ Len(attempts) = 3
    /\ Len(invoked) = 1
    /\ invoked[1].executor = "ExXY"
    /\ invoked[1].args[w_x].value = <<to_lowercase(w_Foo)>>
    /\ invoked[1].args[w_y].value = <<w_b>>

(***************************************************************************)
(* C25                                                                     *)
(***************************************************************************)
\* the names of the Argument nodes among the first n nodes of a path
ArgumentNames(t, p, n) ==
    {t.nodes[p[j]].node_type.name :
        j \in {i \in 1..n : t.nodes[p[i]].node_type.tag = "Argument"}}

\* C25: the arguments map handed to an action has as keys exactly the names
\* of the Argument nodes on the path of the action, each with the value its
\* consumer returned on that path from the tokens of the input; during an
\* attempt the map holds the arguments of the nodes passed on the current
\* path and nothing of an attempt given up before.
C25_ArgumentsOfThePath ==
    /\ pc = "walk" =>
          DOMAIN parsed_args = ArgumentNames(Unwrap(tree), path, ix - 1)
    /\ \A k \in 1..Len(invoked) :
          /\ DOMAIN invoked[k].args = ArgumentNames(Unwrap(tree), path, Len(path))
          /\ invoked[k].args = ParsedOn(Unwrap(tree), path, raw_args, src)

\* "cmd a c": the third syntax parsed x = "a" and was given up at its
\* literal; the action of the fourth got y alone
C25_Witness ==
    /\ pc = "done"
    /\ IsSome(tree)
    /\ TypedArgs(cmd) = <<w_a, w_c>>
    /\ Len(attempts) = 4
    /\ Len(invoked) = 1
    /\ invoked[1].executor = "ExY"
    /\ DOMAIN invoked[1].args = {w_y}
    /\ ArgumentNames(Unwrap(tree), attempts[3], Len(attempts[3])) = {w_x}

(***************************************************************************)
(* C26                                                                     *)
(***************************************************************************)
\* the chain from node i up to its first-level ancestor: i and the nodes it
\* is below
ChainAbove(t, i) ==
    {j \in DOMAIN t.nodes : i \in ReachableFrom(t, {j}, {})}

\* the nodes of the chain that give a segment
SegmentNodes(t, i) ==
    {j \in ChainAbove(t, i) : t.nodes[j].node_type.tag \in {"Literal", "Argument"}}

\* C26: get_permission returns None exactly when no node on the chain from
\* the given node up to its first-level ancestor is a Literal or an Argument,
\* and Some string whenever there is such a node.
C26_NoneIffNoSegments ==
    IsSome(tree) =>
        \A i \in DOMAIN Unwrap(tree).nodes :
            (get_permission(Unwrap(tree), i, plugin_name) = None)
                <=> (SegmentNodes(Unwrap(tree), i) = {})

(***************************************************************************)
(* C27                                                                     *)
(***************************************************************************)
\* the sender lacks the permission string of a path with a gated terminal
Lacks(t, p, ns, s) ==
    /\ t.nodes[p[Len(p)]].requires_permission
    /\ ~has_permission(s, ExpectedPermission(t, p, ns))

\* a dispatch that checks the permission of a path when the path's terminal
\* is reached with no token left, from the i-th path on: what it returns and
\* what it invokes
RECURSIVE CheckedAtLeaf(_, _, _, _, _)
CheckedAtLeaf(t, i, stack, ns, s) ==
    IF i > Len(PreOrderPaths(t))
    THEN [result |-> GeneralCommandIssue("Invalid Syntax. Usage: {tree}", TreeDisplay(t)),
          invoked |-> <<>>]
    ELSE LET p == PreOrderPaths(t)[i]
         IN IF ~Fits(t, p, stack, s) THEN CheckedAtLeaf(t, i + 1, stack, ns, s)
            ELSE IF Lacks(t, p, ns, s)
                 THEN [result |-> PermissionDenied, invoked |-> <<>>]
                 ELSE [result |-> execute(ExecutorOf(t, p), s, ParsedOn(t, p, stack, s)),
                       invoked |-> <<Call(t, p, s, ParsedOn(t, p, stack, s))>>]

Gated(t, p) == t.nodes[p[Len(p)]].requires_permission

\* dispatch's loop takes up the next path in this step
TakesUpPath == pc = "paths" /\ Len(attempts') = Len(attempts) + 1

C28_Step ==
    /\ (TakesUpPath /\ ~Gated(Unwrap(tree), path')) => (pc' = "walk" /\ result' = result)
    /\ (pc \in {"paths", "walk"} /\ result'.kind = "PermissionDenied") =>
          \/ Gated(Unwrap(tree), path')
          \/ Len(invoked') = Len(invoked) + 1

PermissionChecks ==
    {"CommandSender::has_permission_lvl", "CommandSender::has_permission",
     "CommandTree::check_permission"}

C30_DeniedWithoutChecker ==
    (/\ pc = "checker"
     /\ registrations = <<>>
     /\ IsSome(consulted)
     /\ Unwrap(consulted).named
     /\ Unwrap(Unwrap(consulted).sender).kind = "Player")
    => ~Unwrap(consulted).answer

(***************************************************************************)
(* C31                                                                     *)
(***************************************************************************)
InternalError == GeneralCommandIssue("Internal Error (See logs for details)", <<>>)

\* the entry an Alias entry points to is a Tree
PointsToTree(cmds, key) ==
    /\ cmds[key].target \in DOMAIN cmds
    /\ cmds[cmds[key].target].tag = "Tree"

\* the key of the command text in flight is stored as an Alias
AliasInFlight ==
    /\ pc # "idle"
    /\ IsSome(KeyOf(cmd))
    /\ Unwrap(KeyOf(cmd)) \in DOMAIN commands
    /\ commands[Unwrap(KeyOf(cmd))].tag = "Alias"

\* C31: alias resolution follows one indirection: get_tree on a key stored
\* as Alias(target) returns the tree stored under target when that entry is
\* a Tree, and GeneralCommandIssue when target is unregistered or is itself
\* an Alias; a dispatch on a key of the second kind works on no tree, runs
\* no action and ends with that error.
C31_OneIndirection ==
    /\ \A key \in DOMAIN commands :
          commands[key].tag = "Alias" =>
              IF PointsToTree(commands, key)
              THEN get_tree(commands, key) =
                       [ok |-> TRUE, tree |-> Some(commands[commands[key].target].tree),
                        err |-> Ok]
              ELSE get_tree(commands, key) =
                       [ok |-> FALSE, tree |-> None, err |-> InternalError]
    /\ AliasInFlight =>
          IF PointsToTree(commands, Unwrap(KeyOf(cmd)))
          THEN tree = Some(commands[commands[Unwrap(KeyOf(cmd))].target].tree)
          ELSE /\ tree = None
               /\ invoked = <<>>
               /\ attempts = <<>>
               /\ result = InternalError

\* a dispatch on an Alias of an Alias of a tree ended with the error and its
\* message
C31_Witness ==
    /\ pc = "done"
    /\ AliasInFlight
    /\ LET target == commands[Unwrap(KeyOf(cmd))].target
       IN /\ target \in DOMAIN commands
          /\ commands[target].tag = "Alias"
          /\ PointsToTree(commands, target)
    /\ result = InternalError
    /\ invoked = <<>>
    /\ messages = <<<<"Internal Error (See logs for details)", <<>>>>>>

(***************************************************************************)
(* C32                                                                     *)
(***************************************************************************)
\* C32: after any sequence of registrations the three maps of the registry
\* have the same keys: a name has a Command exactly if it has a minimum
\* permission level and a namespace, so the namespace dispatch takes for a
\* registered name is the recorded one and never the default.
C32_SameKeys ==
    /\ DOMAIN commands = DOMAIN permissions
    /\ DOMAIN commands = DOMAIN plugin_names
    /\ \A key \in DOMAIN commands :
          /\ IsSome(MapGet(plugin_names, key))
          /\ IsSome(get_permission_lvl(permissions, key))
          /\ \E k \in 1..Len(calls) :
                /\ Contains(calls[k].tree.names, key)
                /\ NamespaceOf(plugin_names, key) = calls[k].ns

\* a tree of several names was registered after another tree, by a plugin
C32_Witness ==
    /\ Len(calls) = 2
    /\ Len(calls[2].tree.names) > 1
    /\ calls[2].ns # w_pumpkin
    /\ calls[1].tree.names # calls[2].tree.names
    /\ Cardinality(DOMAIN commands) > 2

(***************************************************************************)
(* C33                                                                     *)
(***************************************************************************)
\* a dispatch or a suggestion pass is under way
InFlight == pc \notin {"idle", "done", "s_done", "cancelled"}

\* the trees the registry holds
RegisteredTrees == {commands[key].tree : key \in {k \in DOMAIN commands :
                                                    commands[k].tag = "Tree"}}

C33_Step ==
    \/ UNCHANGED registry
    \/ /\ pc = "idle" /\ pc' = "idle"
       /\ UNCHANGED <<src, cmd, locals, result, history, suggestions>>

\* C33: dispatch, handle_command and find_suggestions leave the three maps
\* of the registry and every registered tree as they were, whether they run
\* to their end, end in an error or are dropped while suspended; the
\* registry changes only in steps that are no part of them, and the tree a
\* dispatch or pass works on is a tree of the registry throughout.
C33_RegistryFrame ==
    /\ [](IsSome(tree) => Unwrap(tree) \in RegisteredTrees)
    /\ [][C33_Step]_vars

\* a dispatch was dropped after its action had run, under a registry that a
\* registration had changed before
C33_Witness ==
    /\ pc = "cancelled"
    /\ invoked # <<>>
    /\ commands # default_dispatcher.commands
    /\ tree = None

(***************************************************************************)
(* C34                                                                     *)
(***************************************************************************)
\* the tasks whose dispatch or suggestion pass has resolved its tree and is
\* in a path attempt, where consumers and the action are awaited
InPathAttempt == {t \in TaskIds : tasks[t].stage = "search" /\ tasks[t].steps >= 1}

\* a registration is at the head of the queue and no guard but those of the
\* given tasks keeps it there
WaitsFor(holders) ==
    /\ rw_queue # <<>>
    /\ tasks[Head(rw_queue)].kind = "register"
    /\ rw_writer = None
    /\ rw_readers # {}
    /\ rw_readers \subseteq holders

\* C34: a dispatch does not hold the read guard of the registry while it is
\* suspended in a consumer or in the action: the guard is given back once
\* the tree is resolved, so no task in a path attempt holds a read guard and
\* no registration waits for tasks that are in a path attempt.
C34_NoGuardAcrossAwait ==
    pc = "lock" =>
        /\ InPathAttempt \cap rw_readers = {}
        /\ ~WaitsFor(InPathAttempt)

(***************************************************************************)
(* C35                                                                     *)
(***************************************************************************)
\* C35: an OtherPumpkin error returned by an action leaves the command
\* engine: handle_command hands it on to its caller, where every other kind
\* of error ends in handle_command with the message to the sender.
C35_PassthroughRaised ==
    (pc = "done" /\ ~result.ok /\ invoked # <<>>) =>
        IF result.kind = "OtherPumpkin"
        THEN handle_command_returns(result) = "Err(OtherPumpkin)"
        ELSE handle_command_returns(result) = "()" /\ Len(messages) = 1

(***************************************************************************)
(* C36                                                                     *)
(***************************************************************************)
\* the node the suggestion pass is at
SuggestNodeTag == Unwrap(tree).nodes[path[ix]].node_type.tag

\* the path attempt of the suggestion pass ends in this step
PathGivenUp == pc = "s_walk" /\ pc' # "s_walk"

C36_Step ==
    /\ Len(calls') > Len(calls) =>
          /\ PathGivenUp
          /\ SuggestNodeTag = "Argument"
          /\ args' = <<>>
          /\ \A j \in 1..(ix - 1) :
                Unwrap(tree).nodes[path[j]].node_type.tag # "ExecuteLeaf"
          /\ calls' = Append(calls, SuggestCall(
                          Unwrap(tree).nodes[path[ix]].node_type.consumer, path, ix, cmd))
    /\ (pc = "s_walk" /\ suggestions' # suggestions) => Len(calls') > Len(calls)
    /\ (/\ PathGivenUp
        /\ \/ SuggestNodeTag \in {"ExecuteLeaf", "Literal", "Require"}
           \/ SuggestNodeTag = "Argument" /\ args' # <<>>)
       => UNCHANGED <<suggestions, calls>>

\* C36: in a suggestion pass a consumer's suggest is called only at an
\* Argument node whose consume declined and left the token stack empty, the
\* path attempt ending there; a path attempt that ends at an ExecuteLeaf, at
\* a literal that does not match, or at a consumer that declines with tokens
\* left adds no suggestion and calls no suggest.
C36_SuggestOnlyWhenTyping ==
    /\ [](pc \in {"s_paths", "s_walk", "s_done"} => Len(calls) <= Len(attempts))
    /\ [][C36_Step]_vars

\* a pass ended with suggestions of one path after another path had been
\* given up without a suggest call
C36_Witness ==
    /\ pc = "s_done"
    /\ Len(calls) = 1
    /\ Len(attempts) > 1
    /\ calls[1].node # attempts[1][Len(attempts[1]) - 1]
    /\ suggestions # <<>>

(***************************************************************************)
(* C37                                                                     *)
(***************************************************************************)
\* the suggestions the k-th suggest call of the pass returned
Offered(k) ==
    LET sg == suggest(calls[k].consumer, src, calls[k].input)
    IN IF sg.res.ok /\ IsSome(sg.value) THEN Unwrap(sg.value) ELSE <<>>

RECURSIVE OfferedOn(_, _, _, _, _, _)
OfferedOn(t, p, k, stack, s, input) ==
    IF k > Len(p) THEN [ok |-> TRUE, offered |-> <<>>]
    ELSE LET nt == t.nodes[p[k]].node_type
         IN CASE nt.tag = "ExecuteLeaf" -> [ok |-> TRUE, offered |-> <<>>]
              [] nt.tag = "Literal" ->
                   IF stack # <<>> /\ stack[Len(stack)] = nt.string
                   THEN OfferedOn(t, p, k + 1, SubSeq(stack, 1, Len(stack) - 1), s, input)
                   ELSE [ok |-> TRUE, offered |-> <<>>]
              [] nt.tag = "Argument" ->
                   LET c == consume(nt.consumer, s, stack)
                       sg == suggest(nt.consumer, s, input)
                   IN IF IsSome(c.value) THEN OfferedOn(t, p, k + 1, c.rest, s, input)
                      ELSE IF c.rest # <<>> THEN [ok |-> TRUE, offered |-> <<>>]
                      ELSE IF ~sg.res.ok THEN [ok |-> FALSE, offered |-> <<>>]
                      ELSE [ok |-> TRUE,
                            offered |-> IF IsSome(sg.value) THEN Unwrap(sg.value)
                                        ELSE <<>>]
              [] nt.tag = "Require" ->
                   IF predicate(nt.predicate, s)
                   THEN OfferedOn(t, p, k + 1, stack, s, input)
                   ELSE [ok |-> TRUE, offered |-> <<>>]

\* the texts every path of the tree offers on the tokens of the request
TextsOfPaths(t, stack, s, input) ==
    UNION {{OfferedOn(t, PreOrderPaths(t)[i], 1, stack, s, input).offered[j].suggestion :
               j \in 1..Len(OfferedOn(t, PreOrderPaths(t)[i], 1, stack, s, input).offered)} :
             i \in 1..Len(PreOrderPaths(t))}

\* C38: in find_suggestions every path attempt starts on the full token
\* stack of the request, so what a path contributes depends on the path, the
\* sender and the tokens alone: a pass that ends without an error returns
\* the texts that the paths offer each on the tokens of the request, in
\* whatever order the sibling branches are tried.
C38_PathsIndependent ==
    /\ (pc = "s_walk" /\ ix = 1) => args = raw_args
    /\ (pc = "s_done" /\ IsSome(tree) /\ result = Pending) =>
          {suggestions[i].suggestion : i \in 1..Len(suggestions)} =
              TextsOfPaths(Unwrap(tree), raw_args, src, cmd)

(***************************************************************************)
(* C39                                                                     *)
(***************************************************************************)
\* the level registered for the key of the command text in flight
RegisteredLvl == get_permission_lvl(permissions, Unwrap(KeyOf(cmd)))

\* C39: dispatch enforces the minimum permission level recorded for a name
\* at registration: when an action of a command has been invoked for a
\* player, the player's level is at least the level registered for the key.
C39_MinimumLevelEnforced ==
    (/\ pc \in {"paths", "walk", "error", "done"}
     /\ invoked # <<>>
     /\ src.kind = "Player"
     /\ IsSome(RegisteredLvl))
    => has_permission_lvl(src, Unwrap(RegisteredLvl))

(***************************************************************************)
(* C40                                                                     *)
(***************************************************************************)
\* the task has called command_dispatcher.write().await and not got the guard
AwaitsWrite(t) ==
    \/ tasks[t].kind = "register" /\ tasks[t].stage = "waiting"
    \/ tasks[t].stage = "action_waiting"

\* register_command of the task has returned
Registered(t) == tasks[t].left = <<>> /\ rw_writer # Some(t)

\* C40: registration always completes: every register_command request
\* eventually gets the write guard and returns, a request made by an action
\* during its own dispatch included.
C40_RegistrationCompletes ==
    \A t \in TaskIds : (pc = "lock" /\ AwaitsWrite(t)) ~> Registered(t)

\* the same for the requests of the tasks that are registrations themselves
C40_OtherTasksComplete ==
    (\A u \in TaskIds : tasks[u].kind = "register" \/ tasks[u].tree = None) =>
        \A t \in TaskIds : (pc = "lock" /\ AwaitsWrite(t)) ~> Registered(t)

====
